---- MODULE Spec2Model ----
(***************************************************************************)
(* Emulsion film-roll tracker: the search query language of                *)
(* backend/app/api/search.py (SearchParser) and the list_film_rolls        *)
(* endpoint of backend/app/api/rolls.py that drives it.                    *)
(*                                                                         *)
(* A Python str is a sequence of one-character strings.  An Optional[T]    *)
(* value is the empty tuple (None) or the one-element tuple <<v>>.         *)
(***************************************************************************)
EXTENDS Integers, Sequences, FiniteSets, TLC

VARIABLES
  query,             \* the search string handed to parse
  parts,             \* parse: the parts of the quote-aware split
  idx,               \* parse: number of parts the loop has processed
  tokens,            \* parse: the tokens built so far
  phase,             \* parse: control position
  rolls,             \* table film_rolls, in insertion order
  batches,           \* table chemistry_batches, in insertion order
  request,           \* list_film_rolls: skip, limit, status, order_id
  sql_filters,       \* list_film_rolls: store filters of build_filters
  computed_filters,  \* list_film_rolls: computed filters of build_filters
  fetched,           \* the records fetched from the store (query.all())
  filtered,          \* what apply_computed_filters returned, None if not called
  response,          \* the HTTP response of the request in hand
  fault,             \* the store call of the request that fails, None for none
  calls,             \* list_film_rolls: the store calls issued, in order
  local_total,       \* list_film_rolls: its local total (query.count(), or len(rolls))
  chart,             \* table development_chart, in insertion order
  minted             \* table name -> number of ids generate_uuid has given its rows

parseVars == <<query, parts, idx, tokens, phase>>

storeVars == <<rolls, batches, chart, minted>>

searchVars == <<request, sql_filters, computed_filters, fetched, filtered, response,
                fault, calls, local_total>>

vars == <<query, parts, idx, tokens, phase, rolls, batches, chart, minted,
          request, sql_filters, computed_filters, fetched, filtered, response,
          fault, calls, local_total>>

None == <<>>

Some(v) == <<v>>

(***************************************************************************)
(* Characters and the str methods the parser uses.                         *)
(***************************************************************************)
LowerLetters ==
  <<"a","b","c","d","e","f","g","h","i","j","k","l","m",
    "n","o","p","q","r","s","t","u","v","w","x","y","z">>

UpperLetters ==
  <<"A","B","C","D","E","F","G","H","I","J","K","L","M",
    "N","O","P","Q","R","S","T","U","V","W","X","Y","Z">>

Digits == {"0","1","2","3","4","5","6","7","8","9"}

Range(s) == {s[i] : i \in DOMAIN s}

\* the characters the regex class \w matches (ASCII part)
WordChars == Range(LowerLetters) \cup Range(UpperLetters) \cup Digits \cup {"_"}

LetterIndex(c, letters) == CHOOSE i \in DOMAIN letters : letters[i] = c

\* str.lower() and str.upper(), one character
LowerChar(c) ==
  IF c \in Range(UpperLetters) THEN LowerLetters[LetterIndex(c, UpperLetters)] ELSE c

UpperChar(c) ==
  IF c \in Range(LowerLetters) THEN UpperLetters[LetterIndex(c, LowerLetters)] ELSE c

Lower(s) == [i \in DOMAIN s |-> LowerChar(s[i])]

Upper(s) == [i \in DOMAIN s |-> UpperChar(s[i])]

Drop(s, n) == SubSeq(s, n + 1, Len(s))

Take(s, n) == SubSeq(s, 1, n)

StartsWith(s, p) == Len(p) <= Len(s) /\ Take(s, Len(p)) = p

\* number of leading / trailing characters of s that are in cs
LeadRun(s, cs) ==
  IF \A i \in DOMAIN s : s[i] \in cs THEN Len(s)
  ELSE (CHOOSE i \in DOMAIN s : s[i] \notin cs /\ \A j \in 1..(i - 1) : s[j] \in cs) - 1

TrailRun(s, cs) ==
  IF \A i \in DOMAIN s : s[i] \in cs THEN Len(s)
  ELSE Len(s) - (CHOOSE i \in DOMAIN s : s[i] \notin cs /\ \A j \in (i + 1)..Len(s) : s[j] \in cs)

\* str.strip(chars): drop the leading and the trailing run of chars
StripChars(s, cs) ==
  IF LeadRun(s, cs) = Len(s) THEN <<>>
  ELSE SubSeq(s, LeadRun(s, cs) + 1, Len(s) - TrailRun(s, cs))

\* str.strip() with no argument strips whitespace
Whitespace == {" "}

Strip(s) == StripChars(s, Whitespace)

(***************************************************************************)
(* SearchParser.FIELD_ALIASES: user-facing field name -> FilmRoll          *)
(* attribute.                                                              *)
(***************************************************************************)
k_format == <<"f","o","r","m","a","t">>

k_stock == <<"s","t","o","c","k">>

k_status == <<"s","t","a","t","u","s">>

k_order == <<"o","r","d","e","r">>

k_stars == <<"s","t","a","r","s">>

k_mine == <<"m","i","n","e">>

k_not_mine == <<"n","o","t","_","m","i","n","e">>

k_push == <<"p","u","s","h">>

k_pull == <<"p","u","l","l">>

k_chemistry == <<"c","h","e","m","i","s","t","r","y">>

k_cost == <<"c","o","s","t">>

k_date == <<"d","a","t","e">>

FIELD_ALIASES ==
  (k_format :> "film_format") @@
  (k_stock :> "film_stock_name") @@
  (k_status :> "status") @@
  (k_order :> "order_id") @@
  (k_stars :> "stars") @@
  (k_mine :> "not_mine") @@
  (k_not_mine :> "not_mine") @@
  (k_push :> "push_pull_stops") @@
  (k_pull :> "push_pull_stops") @@
  (k_chemistry :> "chemistry_id") @@
  (k_cost :> "total_cost") @@
  (k_date :> "date_loaded")

(***************************************************************************)
(* SearchToken(field, operator, value): field is None for simple text.     *)
(***************************************************************************)
SearchToken(field, operator, value) ==
  [field |-> field, operator |-> operator, value |-> value]

\* _split_respecting_quotes: the loop over the characters of the query,
\* carrying (parts, current, in_quotes)
RECURSIVE SplitLoop(_, _, _, _, _)
SplitLoop(q, i, ps, current, in_quotes) ==
  IF i > Len(q)
  THEN IF current # <<>> THEN Append(ps, current) ELSE ps
  ELSE IF q[i] = "\""
       THEN SplitLoop(q, i + 1, ps, current, ~in_quotes)
       ELSE IF q[i] = " " /\ ~in_quotes
            THEN IF current # <<>>
                 THEN SplitLoop(q, i + 1, Append(ps, current), <<>>, in_quotes)
                 ELSE SplitLoop(q, i + 1, ps, current, in_quotes)
            ELSE SplitLoop(q, i + 1, ps, Append(current, q[i]), in_quotes)

\* a plausible slip: quotes dropped but never toggling in_quotes
SplitIgnoringQuotes(q) ==
  SplitLoop(SelectSeq(q, LAMBDA c : c # "\""), 1, <<>>, <<>>, FALSE)

_split_respecting_quotes(q) == SplitLoop(q, 1, <<>>, <<>>, FALSE)

\* the operators of a SearchToken
op_contains == <<"c","o","n","t","a","i","n","s">>

op_eq == <<"=">>

op_gt == <<">">>

op_lt == <<"<">>

op_ge == <<">","=">>

op_le == <<"<","=">>

\* a plausible slip: the one-character operators tried first
ComparisonOpsShortFirst == <<op_gt, op_lt, op_eq, op_ge, op_le>>

\* the alternation (>=|<=|>|<|=) of the first regex, in the order tried
ComparisonOps == <<op_ge, op_le, op_gt, op_lt, op_eq>>

\* the alternatives that leave at least one character for (.+)
OpsMatching(rest) ==
  {k \in DOMAIN ComparisonOps :
     StartsWith(rest, ComparisonOps[k]) /\ Len(rest) > Len(ComparisonOps[k])}

\* the two re.match calls of _parse_field_token: None when neither pattern
\* matches, else Some of the groups (field_name, operator, value)
FieldMatch(part) ==
  LET n    == LeadRun(part, WordChars)          \* (\w+), greedy
      rest == Drop(part, n + 1)                 \* what follows the colon
  IN IF n = 0 \/ n >= Len(part) \/ part[n + 1] # ":" \/ rest = <<>>
     THEN None                                  \* ^(\w+):(.+)$ fails
     ELSE LET ks == OpsMatching(rest)
              k  == CHOOSE x \in ks : \A y \in ks : x <= y
          IN IF ks # {}
             THEN Some([field_name |-> Lower(Take(part, n)),
                        operator   |-> ComparisonOps[k],
                        value      |-> StripChars(Drop(rest, Len(ComparisonOps[k])), {"\""})])
             ELSE Some([field_name |-> Lower(Take(part, n)),
                        operator   |-> op_eq,
                        value      |-> StripChars(rest, {"\""})])

\* a plausible slip: a part matching neither pattern kept as a text token
ParseFieldTokenKeepsUnmatched(part) ==
  LET m == FieldMatch(part)
  IN IF m = None THEN Some(SearchToken(None, op_contains, part))
     ELSE IF m[1].field_name \notin DOMAIN FIELD_ALIASES
          THEN Some(SearchToken(None, op_contains, part))
          ELSE Some(SearchToken(Some(m[1].field_name), m[1].operator, m[1].value))

\* a plausible slip: only the right-hand side kept for an unknown field
ParseFieldTokenKeepsValue(part) ==
  LET m == FieldMatch(part)
  IN IF m = None THEN None
     ELSE IF m[1].field_name \notin DOMAIN FIELD_ALIASES
          THEN Some(SearchToken(None, op_contains, m[1].value))
          ELSE Some(SearchToken(Some(m[1].field_name), m[1].operator, m[1].value))

\* a plausible slip: the field name not validated
ParseFieldTokenUnvalidated(part) ==
  LET m == FieldMatch(part)
  IN IF m = None THEN None
     ELSE Some(SearchToken(Some(m[1].field_name), m[1].operator, m[1].value))

\* _parse_field_token: None when neither regex matches, else Some(token)
_parse_field_token(part) ==
  LET m == FieldMatch(part)
  IN IF m = None THEN None
     ELSE IF m[1].field_name \notin DOMAIN FIELD_ALIASES
          THEN Some(SearchToken(None, op_contains, part))
          ELSE Some(SearchToken(Some(m[1].field_name), m[1].operator, m[1].value))

\* one iteration of the loop `for part in parts` of parse
ParseStep(toks, part) ==
  IF ":" \in Range(part)
  THEN LET token == _parse_field_token(part)
       IN IF token # None THEN Append(toks, token[1]) ELSE toks
  ELSE Append(toks, SearchToken(None, op_contains, part))

RECURSIVE ParseLoop(_, _, _)
ParseLoop(ps, i, toks) ==
  IF i > Len(ps) THEN toks ELSE ParseLoop(ps, i + 1, ParseStep(toks, ps[i]))

\* SearchParser.parse
parse(q) ==
  IF q = <<>> \/ Strip(q) = <<>> THEN <<>>
  ELSE ParseLoop(_split_respecting_quotes(Strip(q)), 1, <<>>)

(***************************************************************************)
(* Numbers.  A Decimal or float is the exact rational [n |-> numerator,    *)
(* d |-> denominator] with d > 0.  int() and float() are modelled on       *)
(* decimal literals: surrounding whitespace, an optional sign, digits and, *)
(* for float, at most one point.  Exponents, inf, nan and digit-group      *)
(* underscores need characters that no query of the model contains.        *)
(***************************************************************************)
DigitSeq == <<"0","1","2","3","4","5","6","7","8","9">>

DigitVal(c) == (CHOOSE i \in DOMAIN DigitSeq : DigitSeq[i] = c) - 1

RECURSIVE DigitsVal(_)
DigitsVal(s) ==
  IF s = <<>> THEN 0 ELSE 10 * DigitsVal(Take(s, Len(s) - 1)) + DigitVal(s[Len(s)])

RECURSIVE Pow10(_)
Pow10(k) == IF k = 0 THEN 1 ELSE 10 * Pow10(k - 1)

Rat(n, d) == [n |-> n, d |-> d]

\* the sign and the unsigned body of a numeric literal
Signed(s) ==
  LET t == Strip(s)
  IN IF t # <<>> /\ t[1] \in {"+", "-"}
     THEN [neg |-> t[1] = "-", body |-> Tail(t)]
     ELSE [neg |-> FALSE, body |-> t]

\* int(value): None stands for ValueError
ParseInt(s) ==
  LET sg == Signed(s)
  IN IF sg.body = <<>> \/ \E i \in DOMAIN sg.body : sg.body[i] \notin Digits
     THEN None
     ELSE Some(IF sg.neg THEN 0 - DigitsVal(sg.body) ELSE DigitsVal(sg.body))

\* float(value): None stands for ValueError
ParseFloat(s) ==
  LET sg     == Signed(s)
      b      == sg.body
      points == {i \in DOMAIN b : b[i] = "."}
      digs   == SelectSeq(b, LAMBDA c : c # ".")
      frac   == IF points = {} THEN 0 ELSE Len(b) - (CHOOSE i \in points : TRUE)
  IN IF \/ digs = <<>>
        \/ Cardinality(points) > 1
        \/ \E i \in DOMAIN digs : digs[i] \notin Digits
     THEN None
     ELSE Some(Rat(IF sg.neg THEN 0 - DigitsVal(digs) ELSE DigitsVal(digs), Pow10(frac)))

RatLess(a, b) == a.n * b.d < b.n * a.d

RatEq(a, b) == a.n * b.d = b.n * a.d

Abs(x) == IF x < 0 THEN 0 - x ELSE x

(***************************************************************************)
(* Dates.  A datetime.date is the integer year*10000 + month*100 + day,    *)
(* which orders dates as the calendar does.                                *)
(***************************************************************************)
IsLeap(y) == (y % 4 = 0 /\ y % 100 # 0) \/ y % 400 = 0

DaysInMonth(y, m) ==
  IF m = 2 THEN (IF IsLeap(y) THEN 29 ELSE 28)
  ELSE IF m \in {4, 6, 9, 11} THEN 30 ELSE 31

\* date(y, m, d) raises ValueError outside these ranges
ValidDate(y, m, d) ==
  /\ y \in 1..9999
  /\ m \in 1..12
  /\ d >= 1
  /\ d <= DaysInMonth(y, m)

MkDate(y, m, d) == y * 10000 + m * 100 + d

\* date.fromisoformat on a 10-character value: YYYY-MM-DD
FromIsoFormat(s) ==
  IF /\ Len(s) = 10
     /\ s[5] = "-"
     /\ s[8] = "-"
     /\ \A i \in {1, 2, 3, 4, 6, 7, 9, 10} : s[i] \in Digits
     /\ ValidDate(DigitsVal(SubSeq(s, 1, 4)), DigitsVal(SubSeq(s, 6, 7)),
                  DigitsVal(SubSeq(s, 9, 10)))
  THEN Some(MkDate(DigitsVal(SubSeq(s, 1, 4)), DigitsVal(SubSeq(s, 6, 7)),
                   DigitsVal(SubSeq(s, 9, 10))))
  ELSE None

(***************************************************************************)
(* Character order and SQL text operators (SQLite, BINARY collation).      *)
(* Ascii lists the printable characters in code order, without the         *)
(* backslash and the backquote, which no text of the model contains.       *)
(***************************************************************************)
Ascii ==
  <<" ","!","\"","#","$","%","&","'","(",")","*","+",",","-",".","/",
    "0","1","2","3","4","5","6","7","8","9",":",";","<","=",">","?","@",
    "A","B","C","D","E","F","G","H","I","J","K","L","M",
    "N","O","P","Q","R","S","T","U","V","W","X","Y","Z",
    "[","]","^","_",
    "a","b","c","d","e","f","g","h","i","j","k","l","m",
    "n","o","p","q","r","s","t","u","v","w","x","y","z","{","|","}","~">>

Code(c) == CHOOSE i \in DOMAIN Ascii : Ascii[i] = c

\* a < b for two text values
RECURSIVE StrLess(_, _)
StrLess(a, b) ==
  IF b = <<>> THEN FALSE
  ELSE IF a = <<>> THEN TRUE
  ELSE IF a[1] = b[1] THEN StrLess(Tail(a), Tail(b))
  ELSE Code(a[1]) < Code(b[1])

\* text LIKE pattern: % matches any run, _ any one character
RECURSIVE Like(_, _)
Like(t, pat) ==
  IF pat = <<>> THEN t = <<>>
  ELSE IF pat[1] = "%" THEN \E k \in 0..Len(t) : Like(Drop(t, k), Tail(pat))
  ELSE IF t = <<>> THEN FALSE
  ELSE (pat[1] = "_" \/ pat[1] = t[1]) /\ Like(Tail(t), Tail(pat))

(***************************************************************************)
(* The store.  A FilmRoll row is a record with fields id, order_id,        *)
(* film_stock_name, film_format, date_loaded, date_unloaded,               *)
(* push_pull_stops (tenths of a stop), chemistry_id, stars, film_cost      *)
(* (cents), not_mine, notes.  A ChemistryBatch row has id, name,           *)
(* developer_cost, fixer_cost, other_cost (cents) and rolls_offset.        *)
(***************************************************************************)
s_NEW == <<"N","E","W">>

s_LOADED == <<"L","O","A","D","E","D">>

s_EXPOSED == <<"E","X","P","O","S","E","D">>

s_DEVELOPED == <<"D","E","V","E","L","O","P","E","D">>

s_SCANNED == <<"S","C","A","N","N","E","D">>

\* a plausible slip: the chemistry looked at before the rating
StatusChemistryFirst(roll) ==
  IF roll.chemistry_id # None THEN s_DEVELOPED
  ELSE IF roll.stars # None THEN s_SCANNED
  ELSE IF roll.date_unloaded # None THEN s_EXPOSED
  ELSE IF roll.date_loaded # None THEN s_LOADED
  ELSE s_NEW

\* FilmRoll.status
Status(roll) ==
  IF roll.stars # None THEN s_SCANNED
  ELSE IF roll.chemistry_id # None THEN s_DEVELOPED
  ELSE IF roll.date_unloaded # None THEN s_EXPOSED
  ELSE IF roll.date_loaded # None THEN s_LOADED
  ELSE s_NEW

\* FilmRoll.chemistry: the batch the roll references, None without one
Chemistry(roll, bs) ==
  IF roll.chemistry_id = None THEN None
  ELSE LET hits == {k \in DOMAIN bs : bs[k].id = roll.chemistry_id[1]}
       IN IF hits = {} THEN None ELSE Some(bs[CHOOSE k \in hits : TRUE])

\* ChemistryBatch.batch_cost, in cents
BatchCost(batch) == batch.developer_cost + batch.fixer_cost + batch.other_cost

\* ChemistryBatch.rolls_developed
RollsDeveloped(batch, rs) ==
  Cardinality({k \in DOMAIN rs : rs[k].chemistry_id = Some(batch.id)}) + batch.rolls_offset

\* ChemistryBatch.cost_per_roll, in currency units
CostPerRoll(batch, rs) ==
  LET rolls_count == RollsDeveloped(batch, rs)
  IN IF rolls_count = 0 THEN None
     ELSE IF rolls_count > 0
          THEN Some(Rat(BatchCost(batch), 100 * rolls_count))
          ELSE Some(Rat(0 - BatchCost(batch), 100 * (0 - rolls_count)))

\* FilmRoll.dev_cost
DevCost(roll, rs, bs) ==
  IF Chemistry(roll, bs) = None THEN None
  ELSE CostPerRoll(Chemistry(roll, bs)[1], rs)

\* a plausible slip: the film of a friend's roll counted as well
TotalCostWithFilm(roll, rs, bs) ==
  LET dev == DevCost(roll, rs, bs)
  IN IF dev = None THEN None
     ELSE Some(Rat(roll.film_cost * dev[1].d + 100 * dev[1].n, 100 * dev[1].d))

\* FilmRoll.total_cost
TotalCost(roll, rs, bs) ==
  LET dev == DevCost(roll, rs, bs)
  IN IF dev = None THEN None
     ELSE IF roll.not_mine THEN dev
          ELSE Some(Rat(roll.film_cost * dev[1].d + 100 * dev[1].n, 100 * dev[1].d))

(***************************************************************************)
(* Store filters: the SQLAlchemy expressions build_filters returns, and    *)
(* their evaluation on a row with SQL's three truth values.                *)
(***************************************************************************)
ILike(col, pat) == [kind |-> "ilike", col |-> col, pat |-> pat]

Cmp(col, op, val) == [kind |-> "cmp", col |-> col, op |-> op, val |-> val]

InList(col, vals) == [kind |-> "in", col |-> col, vals |-> vals]

AndOf(args) == [kind |-> "and", args |-> args]

OrOf(args) == [kind |-> "or", args |-> args]

\* the Python type of a FilmRoll column
ColType ==
  [film_format |-> "str", film_stock_name |-> "str", order_id |-> "str",
   notes |-> "str", chemistry_id |-> "str", stars |-> "int",
   date_loaded |-> "date", push_pull_stops |-> "num", not_mine |-> "bool"]

\* the value of a column in a row, None for NULL
Col(roll, col) ==
  CASE col = "film_format"     -> Some(roll.film_format)
    [] col = "film_stock_name" -> Some(roll.film_stock_name)
    [] col = "order_id"        -> Some(roll.order_id)
    [] col = "notes"           -> roll.notes
    [] col = "chemistry_id"    -> roll.chemistry_id
    [] col = "stars"           -> roll.stars
    [] col = "date_loaded"     -> roll.date_loaded
    [] col = "push_pull_stops" ->
         IF roll.push_pull_stops = None THEN None
         ELSE Some(Rat(roll.push_pull_stops[1], 10))
    [] col = "not_mine"        -> Some(roll.not_mine)

\* a < b and a = b for two values of the type ty
Less(ty, a, b) ==
  CASE ty = "str" -> StrLess(a, b)
    [] ty = "num" -> RatLess(a, b)
    [] ty = "bool" -> (~a /\ b)
    [] OTHER -> a < b

Equal(ty, a, b) == IF ty = "num" THEN RatEq(a, b) ELSE a = b

Compare(ty, a, op, b) ==
  CASE op = op_eq -> Equal(ty, a, b)
    [] op = op_gt -> Less(ty, b, a)
    [] op = op_lt -> Less(ty, a, b)
    [] op = op_ge -> ~Less(ty, a, b)
    [] op = op_le -> ~Less(ty, b, a)

Bool3(b) == IF b THEN "T" ELSE "F"

\* a comparison, ILIKE or IN on one column: NULL when the column is NULL
EvalAtom(f, roll) ==
  LET v == Col(roll, f.col)
  IN IF v = None THEN "N"
     ELSE CASE f.kind = "ilike" -> Bool3(Like(Lower(v[1]), Lower(f.pat)))
            [] f.kind = "cmp"   -> Bool3(Compare(ColType[f.col], v[1], f.op, f.val))
            [] f.kind = "in"    -> Bool3(v[1] \in f.vals)

And3(vals) ==
  IF "F" \in vals THEN "F" ELSE IF "N" \in vals THEN "N" ELSE "T"

Or3(vals) ==
  IF "T" \in vals THEN "T" ELSE IF "N" \in vals THEN "N" ELSE "F"

EvalFilter(f, roll) ==
  CASE f.kind = "and" -> And3({EvalAtom(f.args[k], roll) : k \in DOMAIN f.args})
    [] f.kind = "or"  -> Or3({EvalAtom(f.args[k], roll) : k \in DOMAIN f.args})
    [] OTHER -> EvalAtom(f, roll)

(***************************************************************************)
(* The filter compiler.                                                    *)
(***************************************************************************)
\* _build_text_search_filter
_build_text_search_filter(text) ==
  LET search_term == <<"%">> \o text \o <<"%">>
  IN OrOf(<<ILike("film_stock_name", search_term),
            ILike("order_id", search_term),
            ILike("notes", search_term)>>)

\* _build_chemistry_filter: bs is the chemistry_batches table self.db reads
_build_chemistry_filter(operator, value, bs) ==
  LET chemistry_batches ==
        SelectSeq(bs, LAMBDA b : Like(Lower(b.name), Lower(<<"%">> \o value \o <<"%">>)))
  IN IF chemistry_batches = <<>>
     THEN Cmp("chemistry_id", op_eq, <<"n","o","-","m","a","t","c","h">>)
     ELSE InList("chemistry_id", {chemistry_batches[k].id : k \in DOMAIN chemistry_batches})

\* the values read as true
TruthyValues == {<<"t","r","u","e">>, <<"y","e","s">>, <<"1">>, <<"t">>, <<"y">>}

\* _build_not_mine_filter
_build_not_mine_filter(operator, value) ==
  LET bool_value == Lower(value) \in TruthyValues
  IN IF operator = op_eq THEN Some(Cmp("not_mine", op_eq, bool_value)) ELSE None

\* the year and month of a 7-character value: value.split('-') and int()
YearMonth(value) ==
  LET dashes == {k \in DOMAIN value : value[k] = "-"}
      k == CHOOSE x \in dashes : TRUE
  IN IF Cardinality(dashes) # 1 THEN None
     ELSE IF ParseInt(Take(value, k - 1)) = None \/ ParseInt(Drop(value, k)) = None
          THEN None
          ELSE Some(<<ParseInt(Take(value, k - 1))[1], ParseInt(Drop(value, k))[1]>>)

DateRange(start_date, end_date) ==
  AndOf(<<Cmp("date_loaded", op_ge, start_date), Cmp("date_loaded", op_le, end_date)>>)

\* _build_date_filter, year format: year is int(value), None for ValueError
YearFilter(year) ==
  IF year = None \/ ~ValidDate(year[1], 1, 1) THEN None
  ELSE Some(DateRange(MkDate(year[1], 1, 1), MkDate(year[1], 12, 31)))

\* _build_date_filter, year-month format
MonthFilter(ym) ==
  IF ym = None \/ ~ValidDate(ym[1][1], ym[1][2], 1) THEN None
  ELSE Some(DateRange(MkDate(ym[1][1], ym[1][2], 1),
                      MkDate(ym[1][1], ym[1][2], DaysInMonth(ym[1][1], ym[1][2]))))

\* _build_date_filter, full date format
DayFilter(operator, parsed_date) ==
  IF parsed_date = None THEN None
  ELSE Some(Cmp("date_loaded", operator, parsed_date[1]))

\* a plausible slip: the operator of the token honoured at every
\* granularity, the range kept for '=' only
DateFilterByOperator(operator, value) ==
  IF Len(value) = 4
  THEN IF operator = op_eq THEN YearFilter(ParseInt(value))
       ELSE IF YearFilter(ParseInt(value)) = None THEN None
       ELSE Some(Cmp("date_loaded", operator, MkDate(ParseInt(value)[1], 1, 1)))
  ELSE IF Len(value) = 7
       THEN IF operator = op_eq THEN MonthFilter(YearMonth(value))
            ELSE IF MonthFilter(YearMonth(value)) = None THEN None
            ELSE Some(Cmp("date_loaded", operator,
                          MkDate(YearMonth(value)[1][1], YearMonth(value)[1][2], 1)))
  ELSE IF Len(value) = 10 THEN DayFilter(operator, FromIsoFormat(value))
  ELSE None

\* _build_date_filter
_build_date_filter(operator, value) ==
  IF Len(value) = 4 THEN YearFilter(ParseInt(value))
  ELSE IF Len(value) = 7 THEN MonthFilter(YearMonth(value))
  ELSE IF Len(value) = 10 THEN DayFilter(operator, FromIsoFormat(value))
  ELSE None

\* _build_push_pull_filter from the float parsed, None for ValueError: pull
\* values are made negative
PushPullFilter(field, operator, parsed) ==
  IF parsed = None THEN None
  ELSE Some(Cmp("push_pull_stops", operator,
                IF field = k_pull THEN Rat(0 - Abs(parsed[1].n), parsed[1].d)
                ELSE parsed[1]))

\* _build_push_pull_filter
_build_push_pull_filter(field, operator, value) ==
  PushPullFilter(field, operator, ParseFloat(SelectSeq(value, LAMBDA c : c # "+")))

\* _convert_value for the column types a standard filter meets; None stands
\* for ValueError
_convert_value(value, python_type) ==
  IF python_type = "int" THEN ParseInt(value) ELSE Some(value)

\* a plausible slip: an unconvertible value compiled to a filter that
\* matches nothing instead of being dropped
StandardFilterStrict(field, operator, value) ==
  LET db_field_name == FIELD_ALIASES[field]
      typed_value == _convert_value(value, ColType[db_field_name])
  IN IF operator = op_eq /\ ColType[db_field_name] = "str"
     THEN Some(ILike(db_field_name, <<"%">> \o value \o <<"%">>))
     ELSE IF typed_value = None
          THEN Some(Cmp("chemistry_id", op_eq, <<"n","o","-","m","a","t","c","h">>))
          ELSE Some(Cmp(db_field_name, operator, typed_value[1]))

\* _build_standard_filter: format, stock, order and stars come here
_build_standard_filter(field, operator, value) ==
  LET db_field_name == FIELD_ALIASES[field]
      typed_value == _convert_value(value, ColType[db_field_name])
  IN IF operator = op_eq /\ ColType[db_field_name] = "str"
     THEN Some(ILike(db_field_name, <<"%">> \o value \o <<"%">>))
     ELSE IF typed_value = None THEN None
          ELSE Some(Cmp(db_field_name, operator, typed_value[1]))

\* what _build_field_filter returns: a str (the name of a computed field),
\* a store filter, or None
ComputedName(name) == Some([tag |-> "str", name |-> name])

SqlFilter(opt) == IF opt = None THEN None ELSE Some([tag |-> "sql", f |-> opt[1]])

\* _build_field_filter
_build_field_filter(token, bs) ==
  LET field == token.field[1]
      operator == token.operator
      value == token.value
  IN CASE field = k_chemistry -> SqlFilter(Some(_build_chemistry_filter(operator, value, bs)))
       [] field = k_status -> ComputedName("status")
       [] field = k_cost -> ComputedName("total_cost")
       [] field \in {k_mine, k_not_mine} -> SqlFilter(_build_not_mine_filter(operator, value))
       [] field = k_date -> SqlFilter(_build_date_filter(operator, value))
       [] field \in {k_push, k_pull} -> SqlFilter(_build_push_pull_filter(field, operator, value))
       [] OTHER -> SqlFilter(_build_standard_filter(field, operator, value))

\* one iteration of the loop of build_filters over tokens; acc holds
\* sql_filters and computed_filters
\* build_filters, lines 157-166: what becomes of the result of
\* _build_field_filter
BuildField(acc, token, field_filter) ==
  IF field_filter = None THEN acc
  ELSE IF field_filter[1].tag = "str"
       THEN [acc EXCEPT !.computed =
               Append(@, <<field_filter[1].name, token.operator, token.value>>)]
       ELSE [acc EXCEPT !.sql = Append(@, field_filter[1].f)]

BuildStep(acc, token, bs) ==
  IF token.field = None
  THEN [acc EXCEPT !.sql = Append(@, _build_text_search_filter(token.value))]
  ELSE BuildField(acc, token, _build_field_filter(token, bs))

RECURSIVE BuildLoop(_, _, _, _)
BuildLoop(toks, i, acc, bs) ==
  IF i > Len(toks) THEN acc ELSE BuildLoop(toks, i + 1, BuildStep(acc, toks[i], bs), bs)

\* a plausible slip: the store filters collected in reverse order
BuildFiltersReversed(toks, bs) ==
  LET good == BuildLoop(toks, 1, [sql |-> <<>>, computed |-> <<>>], bs)
  IN [sql |-> [k \in DOMAIN good.sql |-> good.sql[Len(good.sql) + 1 - k]],
      computed |-> good.computed]

\* build_filters
build_filters(toks, bs) == BuildLoop(toks, 1, [sql |-> <<>>, computed |-> <<>>], bs)

(***************************************************************************)
(* The computed-filter evaluator.  rs and bs are the tables the derived    *)
(* attributes status and total_cost of a record are read from.             *)
(***************************************************************************)
\* a plausible slip: an operator that makes no sense for a status taken as
\* no constraint
CompareValuesLenient(actual, operator, expected) ==
  IF operator = op_eq THEN Upper(actual) = Upper(expected) ELSE TRUE

\* _compare_values
_compare_values(actual, operator, expected) ==
  IF operator = op_eq THEN Upper(actual) = Upper(expected) ELSE FALSE

\* _compare_numeric
_compare_numeric(actual, operator, expected) ==
  CASE operator = op_eq ->
         Abs(actual.n * expected.d - expected.n * actual.d) * 100 < actual.d * expected.d
    [] operator = op_gt -> RatLess(expected, actual)
    [] operator = op_lt -> RatLess(actual, expected)
    [] operator = op_ge -> ~RatLess(actual, expected)
    [] operator = op_le -> ~RatLess(expected, actual)
    [] OTHER -> FALSE

\* a plausible slip: a target that does not parse taken as no constraint
FilterPassesUnparsed(roll, cf, rs, bs) ==
  IF cf[1] = "status"
  THEN _compare_values(Status(roll), cf[2], Upper(cf[3]))
  ELSE IF cf[1] = "total_cost"
       THEN IF TotalCost(roll, rs, bs) = None THEN FALSE
            ELSE IF ParseFloat(cf[3]) = None THEN TRUE
                 ELSE _compare_numeric(TotalCost(roll, rs, bs)[1], cf[2], ParseFloat(cf[3])[1])
       ELSE TRUE

\* the body of the loop over computed_filters: TRUE when the filter leaves
\* `matches` set
FilterPasses(roll, cf, rs, bs) ==
  IF cf[1] = "status"
  THEN _compare_values(Status(roll), cf[2], Upper(cf[3]))
  ELSE IF cf[1] = "total_cost"
       THEN IF TotalCost(roll, rs, bs) = None THEN FALSE
            ELSE IF ParseFloat(cf[3]) = None THEN FALSE
                 ELSE _compare_numeric(TotalCost(roll, rs, bs)[1], cf[2], ParseFloat(cf[3])[1])
       ELSE TRUE

\* the inner loop, with its break at the first filter that fails
RECURSIVE MatchLoop(_, _, _, _, _)
MatchLoop(roll, cfs, j, rs, bs) ==
  IF j > Len(cfs) THEN TRUE
  ELSE IF ~FilterPasses(roll, cfs[j], rs, bs) THEN FALSE
       ELSE MatchLoop(roll, cfs, j + 1, rs, bs)

\* the outer loop over the records
RECURSIVE ApplyLoop(_, _, _, _, _, _)
ApplyLoop(records, i, cfs, filtered_rolls, rs, bs) ==
  IF i > Len(records) THEN filtered_rolls
  ELSE ApplyLoop(records, i + 1, cfs,
                 IF MatchLoop(records[i], cfs, 1, rs, bs)
                 THEN Append(filtered_rolls, records[i]) ELSE filtered_rolls,
                 rs, bs)

\* a plausible slip: a record kept as soon as one computed filter holds
ApplyAnyFilter(records, cfs, rs, bs) ==
  IF cfs = <<>> THEN records
  ELSE SelectSeq(records,
                 LAMBDA r : \E j \in DOMAIN cfs : FilterPasses(r, cfs[j], rs, bs))

\* apply_computed_filters
apply_computed_filters(records, cfs, rs, bs) ==
  IF cfs = <<>> THEN records
  ELSE ApplyLoop(records, 1, cfs, <<>>, rs, bs)

(***************************************************************************)
(* Exceptions.  An exception is a record of its class and message; each    *)
(* try block of search.py is modelled by the exception its body raises     *)
(* (None when it raises nothing) and the classes its except clause names.  *)
(* The store fails when the request's fault names the call being made.     *)
(***************************************************************************)
Exception(class, message) == [class |-> class, message |-> message]

\* int(), float(), date() and date.fromisoformat() on a text they reject
ValueError(text) == Exception("ValueError", text)

\* try: ... except classes: the exception that leaves the statement
Uncaught(exc, classes) ==
  IF exc # None /\ exc[1].class \notin classes THEN exc ELSE None

\* _build_standard_filter, lines 219-221 and 226-235: the exception of
\* _convert_value
StandardTryError(field, operator, value) ==
  IF operator = op_eq /\ ColType[FIELD_ALIASES[field]] = "str" THEN None
  ELSE IF _convert_value(value, ColType[FIELD_ALIASES[field]]) = None
       THEN Some(ValueError(value))
       ELSE None

\* _build_standard_filter, lines 223 and 236
StandardCaught == {"ValueError", "TypeError"}

\* _build_date_filter, lines 268-310: the exception of int(), of the
\* unpacking of value.split('-'), of date() and of date.fromisoformat()
DateTryError(value) ==
  IF \/ Len(value) = 4 /\ YearFilter(ParseInt(value)) = None
     \/ Len(value) = 7 /\ MonthFilter(YearMonth(value)) = None
     \/ Len(value) = 10 /\ FromIsoFormat(value) = None
  THEN Some(ValueError(value))
  ELSE None

\* _build_date_filter, line 311
DateCaught == {"ValueError", "AttributeError"}

\* _build_push_pull_filter, line 320: the exception of float()
PushPullTryError(value) ==
  IF ParseFloat(SelectSeq(value, LAMBDA c : c # "+")) = None
  THEN Some(ValueError(value))
  ELSE None

\* a plausible slip: an except clause that names the wrong class
PushPullCaughtTypeError == {"TypeError"}

\* _build_push_pull_filter, line 336
PushPullCaught == {"ValueError"}

\* the exception that leaves _build_field_filter for a token that makes no
\* store call
FieldError(token) ==
  CASE token.field = Some(k_date) -> Uncaught(DateTryError(token.value), DateCaught)
    [] token.field \in {Some(k_push), Some(k_pull)} ->
         Uncaught(PushPullTryError(token.value), PushPullCaught)
    [] token.field \in {Some(k_format), Some(k_stock), Some(k_order), Some(k_stars)} ->
         Uncaught(StandardTryError(token.field[1], token.operator, token.value),
                  StandardCaught)
    [] OTHER -> None

\* the exception the store raises when the call `at` is the faulty one
StoreError(flt, at) ==
  IF flt # None /\ flt[1].at = at
  THEN Some(Exception("OperationalError", flt[1].message))
  ELSE None

\* an exception on its way out, with the store calls made before it
Failure(exc, made) == Some([exc |-> exc[1], calls |-> made])

\* the exception that leaves build_filters, None when it returns; made is
\* the sequence of store calls made so far.  _build_chemistry_filter has no
\* try block: a failure of its lookup (lines 244-246) leaves it as it is.
RECURSIVE BuildFailure(_, _, _, _)
BuildFailure(toks, i, made, flt) ==
  IF i > Len(toks) THEN None
  ELSE IF toks[i].field = Some(k_chemistry)
       THEN IF StoreError(flt, "lookup") # None
            THEN Failure(StoreError(flt, "lookup"), Append(made, "lookup"))
            ELSE BuildFailure(toks, i + 1, Append(made, "lookup"), flt)
       ELSE IF FieldError(toks[i]) # None
            THEN Failure(FieldError(toks[i]), made)
            ELSE BuildFailure(toks, i + 1, made, flt)

\* apply_computed_filters, lines 384-387: the exception of float(value)
FilterTryError(roll, cf, rs, bs) ==
  IF cf[1] = "total_cost" /\ TotalCost(roll, rs, bs) # None /\ ParseFloat(cf[3]) = None
  THEN Some(ValueError(cf[3]))
  ELSE None

\* apply_computed_filters, line 388
ApplyCaught == {"ValueError", "TypeError"}

\* the exception that leaves the inner loop of apply_computed_filters
RECURSIVE MatchFailure(_, _, _, _, _)
MatchFailure(roll, cfs, j, rs, bs) ==
  IF j > Len(cfs) THEN None
  ELSE IF Uncaught(FilterTryError(roll, cfs[j], rs, bs), ApplyCaught) # None
       THEN Uncaught(FilterTryError(roll, cfs[j], rs, bs), ApplyCaught)
       ELSE IF ~FilterPasses(roll, cfs[j], rs, bs) THEN None
            ELSE MatchFailure(roll, cfs, j + 1, rs, bs)

\* the exception that leaves apply_computed_filters, None when it returns
RECURSIVE ApplyFailure(_, _, _, _, _)
ApplyFailure(records, i, cfs, rs, bs) ==
  IF i > Len(records) THEN None
  ELSE IF MatchFailure(records[i], cfs, 1, rs, bs) # None
       THEN MatchFailure(records[i], cfs, 1, rs, bs)
       ELSE ApplyFailure(records, i + 1, cfs, rs, bs)

(***************************************************************************)
(* list_film_rolls.                                                        *)
(***************************************************************************)
\* query.filter(and_(*filters)): the condition a row is selected under
Selected(roll, filters) ==
  And3({EvalFilter(filters[k], roll) : k \in DOMAIN filters}) = "T"

\* query.all() and query.count() of the filtered FilmRoll query
QueryAll(rs, filters) == SelectSeq(rs, LAMBDA r : Selected(r, filters))

QueryCount(rs, filters) == Cardinality({k \in DOMAIN rs : Selected(rs[k], filters)})

Min(a, b) == IF a < b THEN a ELSE b

\* query.offset(skip).limit(limit).all()
Page(records, skip, limit) == SubSeq(records, skip + 1, Min(Len(records), skip + limit))

\* the locals of list_film_rolls when it returns (line 102)
Locals(toks, sql, computed, records, kept, result, total) ==
  [tokens |-> toks, sql_filters |-> sql, computed_filters |-> computed,
   fetched |-> records, filtered |-> kept, rolls |-> result, total |-> total,
   status_code |-> 200, detail |-> None, calls |-> <<>>]

\* list_film_rolls left by an exception: the status and detail of the error
\* response and the store calls made
Raised(toks, status_code, detail, made) ==
  [tokens |-> toks, sql_filters |-> <<>>, computed_filters |-> <<>>,
   fetched |-> <<>>, filtered |-> None, rolls |-> <<>>, total |-> 0,
   status_code |-> status_code, detail |-> Some(detail), calls |-> made]

\* the search branch after apply_computed_filters (lines 78-79)
SearchKept(toks, built, found, kept) ==
  Locals(toks, built.sql, built.computed, found, Some(kept), kept, Len(kept))

\* the search branch after count() and all() (lines 73-79)
SearchFound(toks, built, found, count, rs, bs) ==
  IF built.computed # <<>>
  THEN SearchKept(toks, built, found,
                  apply_computed_filters(found, built.computed, rs, bs))
  ELSE Locals(toks, built.sql, built.computed, found, None, found, count)

\* the search branch after build_filters (lines 69-79)
SearchBuilt(toks, built, rs, bs) ==
  SearchFound(toks, built, QueryAll(rs, built.sql), QueryCount(rs, built.sql), rs, bs)

\* the search branch, from the tokens on (lines 66-79)
SearchTokens(toks, rs, bs) == SearchBuilt(toks, build_filters(toks, bs), rs, bs)

\* the legacy branch after count() and the paginated fetch (lines 98-100):
\* the status filter applies to the page fetched
LegacyPage(status, page, total) ==
  Locals(<<>>, <<>>, <<>>, page, None,
         IF status # None /\ status[1] # <<>>
         THEN SelectSeq(page, LAMBDA r : Status(r) = Upper(status[1]))
         ELSE page,
         total)

\* the legacy branch after the order_id filter (lines 95-100)
LegacyFiltered(skip, limit, status, filters, rs) ==
  LegacyPage(status, Page(QueryAll(rs, filters), skip, limit), QueryCount(rs, filters))

\* the legacy branch (lines 88-100)
LegacyList(skip, limit, status, order_id, rs) ==
  LegacyFiltered(skip, limit, status,
                 IF order_id # None /\ order_id[1] # <<>>
                 THEN <<Cmp("order_id", op_eq, order_id[1])>> ELSE <<>>,
                 rs)

\* the store calls of a search whose build_filters returns: one lookup for
\* each chemistry token
Lookups(toks) ==
  [k \in 1..Len(SelectSeq(toks, LAMBDA t : t.field = Some(k_chemistry))) |-> "lookup"]

\* the first of two exceptions in program order
OrElse(first, second) == IF first # None THEN first ELSE second

\* the exception raised by count() (line 73) or all() (line 74)
QueryFailure(toks, flt) ==
  OrElse(IF StoreError(flt, "count") = None THEN None
         ELSE Failure(StoreError(flt, "count"), Append(Lookups(toks), "count")),
         IF StoreError(flt, "all") = None THEN None
         ELSE Failure(StoreError(flt, "all"), Lookups(toks) \o <<"count", "all">>))

\* the exception of apply_computed_filters (line 78), given what
\* build_filters returned
KeptFailure(toks, built, rs, bs) ==
  IF ApplyFailure(QueryAll(rs, built.sql), 1, built.computed, rs, bs) = None THEN None
  ELSE Failure(ApplyFailure(QueryAll(rs, built.sql), 1, built.computed, rs, bs),
               Lookups(toks) \o <<"count", "all">>)

\* the first exception raised in the try block of the search branch (lines
\* 61-79), None when the block completes
SearchFailure(toks, flt, rs, bs) ==
  OrElse(BuildFailure(toks, 1, <<>>, flt),
         OrElse(QueryFailure(toks, flt),
                KeptFailure(toks, build_filters(toks, bs), rs, bs)))

\* the search branch with its except clause (lines 81-86): any exception
\* becomes an HTTPException with status 400 and the message in its detail
SearchOutcome(toks, failure, rs, bs) ==
  IF failure # None
  THEN Raised(toks, 400, <<"Invalid search query: ", failure[1].exc.message>>,
              failure[1].calls)
  ELSE [SearchTokens(toks, rs, bs) EXCEPT !.calls = Lookups(toks) \o <<"count", "all">>]

\* the search branch (lines 58-86)
Search(toks, rs, bs, flt) ==
  SearchOutcome(toks, SearchFailure(toks, flt, rs, bs), rs, bs)

\* the legacy branch has no try block: an exception of count() (line 95)
\* or all() (line 96) leaves list_film_rolls and the framework answers 500
Legacy(skip, limit, status, order_id, rs, flt) ==
  IF StoreError(flt, "count") # None
  THEN Raised(<<>>, 500, <<"Internal Server Error">>, <<"count">>)
  ELSE IF StoreError(flt, "all") # None
       THEN Raised(<<>>, 500, <<"Internal Server Error">>, <<"count", "all">>)
       ELSE [LegacyList(skip, limit, status, order_id, rs) EXCEPT
               !.calls = <<"count", "all">>]

\* a plausible slip: the search branch paginated like the legacy branch
ListFilmRollsPaginated(search, skip, limit, status, order_id, rs, bs, flt) ==
  IF search # None /\ search[1] # <<>>
  THEN LET out == SearchTokens(parse(search[1]), rs, bs)
       IN [out EXCEPT !.rolls = Page(@, skip, limit)]
  ELSE LegacyList(skip, limit, status, order_id, rs)

\* a plausible slip: the total not recomputed after the computed filters
ListFilmRollsStaleTotal(search, skip, limit, status, order_id, rs, bs, flt) ==
  IF search # None /\ search[1] # <<>>
  THEN LET out == SearchTokens(parse(search[1]), rs, bs)
       IN [out EXCEPT !.total = QueryCount(rs, out.sql_filters)]
  ELSE LegacyList(skip, limit, status, order_id, rs)

\* a plausible slip: a failed search answered with an empty result
ListFilmRollsSwallowing(search, skip, limit, status, order_id, rs, bs, flt) ==
  IF search # None /\ search[1] # <<>>
  THEN IF SearchFailure(parse(search[1]), flt, rs, bs) # None
       THEN Locals(parse(search[1]), <<>>, <<>>, <<>>, None, <<>>, 0)
       ELSE Search(parse(search[1]), rs, bs, flt)
  ELSE Legacy(skip, limit, status, order_id, rs, flt)

\* list_film_rolls; flt is the store call that fails, None for none
list_film_rolls(search, skip, limit, status, order_id, rs, bs, flt) ==
  IF search # None /\ search[1] # <<>>
  THEN Search(parse(search[1]), rs, bs, flt)
  ELSE Legacy(skip, limit, status, order_id, rs, flt)

(***************************************************************************)
(* Specification SpecParse: parse applied to bounded query strings.  The   *)
(* query is a concatenation of at most MaxPieces pieces.                   *)
(***************************************************************************)
MaxPieces == 4

Pieces ==
  { k_cost, <<"S","t","a","r","s">>, <<"z">>, <<":">>, <<">">>, <<"<">>, <<"=">>,
    <<">","=">>, <<"<","=">>, <<" ">>, <<"\"">>, <<"-">> }

RECURSIVE Concats(_)
Concats(n) ==
  IF n = 0 THEN {<<>>}
  ELSE LET prev == Concats(n - 1) IN prev \cup {p \o q : p \in Pieces, q \in prev}

ParseInit ==
  /\ query \in Concats(MaxPieces)
  /\ parts = <<>>
  /\ idx = 0
  /\ tokens = <<>>
  /\ phase = "start"
  /\ rolls = <<>>
  /\ batches = <<>>
  /\ request = None
  /\ sql_filters = <<>>
  /\ computed_filters = <<>>
  /\ fetched = <<>>
  /\ filtered = None
  /\ response = None
  /\ fault = None
  /\ calls = <<>>
  /\ local_total = 0
  /\ chart = <<>>
  /\ minted = [development_chart |-> 0, film_rolls |-> 0, chemistry_batches |-> 0]

\* parse, lines 69-70: empty or whitespace-only query
ParseEmpty ==
  /\ phase = "start"
  /\ (query = <<>> \/ Strip(query) = <<>>)
  /\ tokens' = <<>>
  /\ phase' = "done"
  /\ UNCHANGED <<query, parts, idx, storeVars, searchVars>>

\* parse, line 75
ParseSplit ==
  /\ phase = "start"
  /\ ~(query = <<>> \/ Strip(query) = <<>>)
  /\ parts' = _split_respecting_quotes(Strip(query))
  /\ idx' = 0
  /\ phase' = "loop"
  /\ UNCHANGED <<query, tokens, storeVars, searchVars>>

\* parse, lines 77-85: one iteration of the loop over parts
ParsePart ==
  /\ phase = "loop"
  /\ idx < Len(parts)
  /\ idx' = idx + 1
  /\ tokens' = ParseStep(tokens, parts[idx + 1])
  /\ UNCHANGED <<query, parts, phase, storeVars, searchVars>>

\* parse, line 87
ParseReturn ==
  /\ phase = "loop"
  /\ idx = Len(parts)
  /\ phase' = "done"
  /\ UNCHANGED <<query, parts, idx, tokens, storeVars, searchVars>>

ParseNext == ParseEmpty \/ ParseSplit \/ ParsePart \/ ParseReturn

SpecParse == ParseInit /\ [][ParseNext]_vars

(***************************************************************************)
(* Properties of the tokenizer, checked under SpecParse.                   *)
(***************************************************************************)
LastToken == tokens[Len(tokens)]

\* part is identifier ":" rest with a non-empty rest, the identifier being
\* its first n characters
IsIdentColonRest(part, n) ==
  /\ n >= 1
  /\ n + 1 < Len(part)
  /\ \A j \in 1..n : part[j] \in WordChars
  /\ part[n + 1] = ":"

\* what parse makes a token of: a part without a colon, or identifier:rest
Tokenizable(part) ==
  \/ ":" \notin Range(part)
  \/ \E n \in 1..Len(part) : IsIdentColonRest(part, n)

\* tok was made from part: a text token of the whole part, or a field token
\* whose field, operator and value are read off the part from left to right
ComesFrom(tok, part) ==
  \/ tok.field = None /\ tok.value = part
  \/ /\ tok.field # None
     /\ \E n \in 1..Len(part) :
          /\ IsIdentColonRest(part, n)
          /\ Lower(Take(part, n)) = tok.field[1]
          /\ Drop(part, n + 1) \in {tok.operator \o tok.value, tok.value}

\* C3 as stated: parse returns exactly one token for each part of the
\* quote-aware split, in the order of the parts, and an empty or
\* whitespace-only query yields no token.
C3_OneTokenPerPart ==
  phase = "done" =>
    /\ Len(tokens) = Len(parts)
    /\ \A i \in DOMAIN tokens : ComesFrom(tokens[i], parts[i])
    /\ (Strip(query) = <<>> => tokens = <<>>)

\* C3 amended: parse returns, in the order of the parts, exactly one token
\* for each part that has no colon or has the form identifier:rest with a
\* non-empty rest; a part with a colon that is not of that form yields no
\* token; an empty or whitespace-only query yields no token.
C3_OneTokenPerTokenizablePart ==
  LET done == IF phase = "done" THEN parts ELSE Take(parts, idx)
      kept == SelectSeq(done, Tokenizable)
  IN /\ Len(tokens) = Len(kept)
     /\ \A i \in DOMAIN tokens : ComesFrom(tokens[i], kept[i])
     /\ (phase = "done" /\ Strip(query) = <<>> => tokens = <<>>)

\* a query of several parts of which one was dropped and one kept
C3_Witness ==
  /\ phase = "done"
  /\ Len(parts) >= 2
  /\ Len(tokens) >= 1
  /\ Len(tokens) < Len(parts)

TwoCharOps == {op_ge, op_le}

OpChars == {">", "<", "="}

\* the token C4 states for the field f and the text after the colon
C4_Token(f, rest) ==
  IF Len(rest) > 2 /\ Take(rest, 2) \in TwoCharOps
  THEN SearchToken(Some(f), Take(rest, 2), Drop(rest, 2))
  ELSE IF Len(rest) > 1 /\ rest[1] \in OpChars
       THEN SearchToken(Some(f), <<rest[1]>>, Drop(rest, 1))
       ELSE SearchToken(Some(f), op_eq, rest)

\* C4: a part F:OPV with F in the Field Alias Table ignoring case, OP a
\* comparison operator and V non-empty yields (F lowercased, OP, V), >= and
\* <= being preferred to > and <; a part F:V without comparison operator
\* after the colon yields (F lowercased, '=', V).
C4_FieldToken ==
  (phase = "loop" /\ idx >= 1) =>
    \A n \in 1..Len(parts[idx]) :
      LET part == parts[idx]
          rest == Drop(part, n + 1)
      IN (/\ IsIdentColonRest(part, n)
          /\ Lower(Take(part, n)) \in DOMAIN FIELD_ALIASES
          /\ ~(Len(rest) = 1 /\ rest[1] \in OpChars))
         => /\ tokens # <<>>
            /\ LastToken = C4_Token(Lower(Take(part, n)), rest)

\* Stars:>=z has just been parsed into (stars, >=, z)
C4_Witness ==
  /\ phase = "loop"
  /\ idx >= 1
  /\ parts[idx] = <<"S","t","a","r","s",":",">","=","z">>
  /\ tokens # <<>>
  /\ LastToken = SearchToken(Some(k_stars), op_ge, <<"z">>)

\* C5: a part identifier:rest whose lowercased identifier is not in the
\* Field Alias Table yields the unscoped token (None, contains, whole part).
C5_UnknownField ==
  (phase = "loop" /\ idx >= 1) =>
    \A n \in 1..Len(parts[idx]) :
      (/\ IsIdentColonRest(parts[idx], n)
       /\ Lower(Take(parts[idx], n)) \notin DOMAIN FIELD_ALIASES)
      => /\ tokens # <<>>
         /\ LastToken = SearchToken(None, op_contains, parts[idx])

\* z:>z has just been parsed into the text token "z:>z"
C5_Witness ==
  /\ phase = "loop"
  /\ idx >= 1
  /\ parts[idx] = <<"z",":",">","z">>
  /\ tokens # <<>>
  /\ LastToken.field = None
  /\ LastToken.value = <<"z",":",">","z">>

QuotesBefore(s, i) == Cardinality({j \in 1..(i - 1) : s[j] = "\""})

\* the spaces that separate: those preceded by an even number of quotes
Separators(s) == {i \in DOMAIN s : s[i] = " " /\ QuotesBefore(s, i) % 2 = 0}

\* the text between the boundary a and the next boundary, quotes removed
SegmentAfter(s, a) ==
  LET bounds == Separators(s) \cup {Len(s) + 1}
      b == CHOOSE x \in bounds : x > a /\ \A y \in bounds : y > a => x <= y
  IN SelectSeq(SubSeq(s, a + 1, b - 1), LAMBDA c : c # "\"")

NonEmptySegments(s) ==
  {a \in Separators(s) \cup {0} : SegmentAfter(s, a) # <<>>}

\* C6: a space separates two parts iff an even number of double quotes
\* precede it, so the parts are the non-empty stretches between such spaces
\* with the quotes removed, and no token value contains a double quote.
C6_QuoteToggle ==
  (phase \in {"loop", "done"} /\ Strip(query) # <<>>) =>
    LET s  == Strip(query)
        ne == NonEmptySegments(s)
    IN /\ Len(parts) = Cardinality(ne)
       /\ \A a \in ne :
            parts[Cardinality({x \in ne : x < a}) + 1] = SegmentAfter(s, a)
       /\ \A i \in DOMAIN tokens : "\"" \notin Range(tokens[i].value)

\* a query with an odd number of quotes, a literal space in a part, parsed
C6_Witness ==
  /\ phase = "done"
  /\ Cardinality({j \in DOMAIN query : query[j] = "\""}) % 2 = 1
  /\ \E k \in DOMAIN parts : " " \in Range(parts[k])
  /\ \E i \in DOMAIN tokens : " " \in Range(tokens[i].value)

\* C7: a token with field None has operator contains; a token with a field
\* has a field of the Field Alias Table and a comparison operator.
C7_WellFormed ==
  \A i \in DOMAIN tokens :
    /\ tokens[i].field = None => tokens[i].operator = op_contains
    /\ tokens[i].field # None =>
         /\ tokens[i].field[1] \in DOMAIN FIELD_ALIASES
         /\ tokens[i].operator \in {op_eq, op_gt, op_lt, op_ge, op_le}

\* a parsed query with a field token
C7_Witness ==
  /\ phase = "done"
  /\ \E i \in DOMAIN tokens : tokens[i].field # None /\ tokens[i].operator = op_le

(***************************************************************************)
(* Specification Spec: the store is filled through create_film_roll and    *)
(* create_chemistry_batch and queried through list_film_rolls, one request *)
(* at a time: a request is taken when the previous response has been       *)
(* returned.                                                               *)
(***************************************************************************)
MaxRolls == 2

MaxBatches == 1

MaxWords == 2

\* the id generate_uuid gives the k-th row of a table
RollId(k) == <<"r", DigitSeq[k + 1]>>

BatchId(k) == <<"b", DigitSeq[k + 1]>>

\* request bodies of POST /api/rolls, without chemistry_id
RollInputs ==
  { [order_id |-> <<"4","2">>, film_stock_name |-> <<"H","P","5">>, film_format |-> <<"3","5","m","m">>,
     date_loaded |-> Some(20240501), date_unloaded |-> None,
     push_pull_stops |-> Some(10),
     stars |-> None, film_cost |-> 800, not_mine |-> TRUE, notes |-> Some(<<"p","e","a","k">>)],
    [order_id |-> <<"7">>, film_stock_name |-> <<"E","k","t","a","r">>, film_format |-> <<"1","2","0">>,
     date_loaded |-> Some(20231231), date_unloaded |-> Some(20240115),
     push_pull_stops |-> Some(0 - 10),
     stars |-> Some(4), film_cost |-> 1500, not_mine |-> FALSE, notes |-> None] }

\* request bodies of POST /api/chemistry
BatchInputs ==
  { [name |-> <<"C","4","1"," ","k","i","t">>, developer_cost |-> 1000, fixer_cost |-> 500,
     other_cost |-> 0, rolls_offset |-> 0] }

\* the words search strings are made of: a text word, a stored field, the
\* two computed fields, a batch name, a numeric comparison
Words ==
  { <<"e","k">>, <<"f","o","r","m","a","t",":","1","2">>,
    <<"s","t","a","t","u","s",":","l","o","a","d","e","d">>,
    <<"c","o","s","t",":",">","2","0">>,
    <<"c","h","e","m","i","s","t","r","y",":","c","4","1">>,
    <<"s","t","a","r","s",":",">","=","4">> }

\* words whose value cannot be parsed for their field, and one that can
MalformedWords ==
  { <<"c","o","s","t",":","z">>, <<"s","t","a","r","s",":","z">>,
    <<"d","a","t","e",":","2","0">>, <<"p","u","l","l",":","z">>,
    <<"f","o","r","m","a","t",":","1","2">>,
    <<"d","a","t","e",":","z","z","z","z">>,
    <<"d","a","t","e",":","2","0","2","4","-","1","3">>,
    <<"d","a","t","e",":",">","2","0","2","4","-","0","2","-","3","0">> }

\* the search strings: at most n words of ws joined by one space
RECURSIVE Queries(_, _)
Queries(ws, n) ==
  IF n = 1 THEN ws
  ELSE LET prev == Queries(ws, n - 1)
       IN prev \cup {w \o <<" ">> \o q : w \in ws, q \in prev}

Paging == {<<0, 100>>, <<1, 1>>}

Request(search, skip, limit, status, order_id) ==
  [search |-> search, skip |-> skip, limit |-> limit,
   status |-> status, order_id |-> order_id]

\* query parameters of GET /api/rolls: searches with a skip and a limit that
\* would cut the result, and legacy requests
RequestInputs ==
  {Request(Some(q), 1, 1, None, None) : q \in Queries(Words, MaxWords) \cup {<<" ">>}}
  \cup
  {Request(search, pg[1], pg[2], status, order_id) :
     search \in {None, Some(<<>>)}, pg \in Paging,
     status \in {None, Some(<<"l","o","a","d","e","d">>)}, order_id \in {None, Some(<<"4","2">>)}}

\* query parameters of GET /api/rolls with malformed field values
MalformedInputs ==
  {Request(Some(q), 0, 100, None, None) : q \in Queries(MalformedWords, MaxWords)}

NoRequest ==
  /\ request' = None
  /\ query' = <<>>
  /\ tokens' = <<>>
  /\ sql_filters' = <<>>
  /\ computed_filters' = <<>>
  /\ fetched' = <<>>
  /\ filtered' = None
  /\ response' = None
  /\ fault' = None
  /\ calls' = <<>>
  /\ local_total' = 0

Init ==
  /\ rolls = <<>>
  /\ batches = <<>>
  /\ query = <<>>
  /\ parts = <<>>
  /\ idx = 0
  /\ tokens = <<>>
  /\ phase = "start"
  /\ request = None
  /\ sql_filters = <<>>
  /\ computed_filters = <<>>
  /\ fetched = <<>>
  /\ filtered = None
  /\ response = None
  /\ fault = None
  /\ calls = <<>>
  /\ local_total = 0
  /\ chart = <<>>
  /\ minted = [development_chart |-> 0, film_rolls |-> 0, chemistry_batches |-> 0]

\* create_film_roll: 404 and no change when chemistry_id names no batch
CreateFilmRollOf(inputs, max) ==
  \E roll_data \in inputs :
    \E chemistry_id \in {None} \cup {Some(BatchId(k)) : k \in 1..(Len(batches) + 1)} :
      /\ request = None
      /\ Len(rolls) < max
      /\ IF chemistry_id # None
            /\ \A k \in DOMAIN batches : batches[k].id # chemistry_id[1]
         THEN rolls' = rolls
         ELSE rolls' = Append(rolls,
                [id |-> RollId(Len(rolls) + 1),
                 order_id |-> roll_data.order_id,
                 film_stock_name |-> roll_data.film_stock_name,
                 film_format |-> roll_data.film_format,
                 date_loaded |-> roll_data.date_loaded,
                 date_unloaded |-> roll_data.date_unloaded,
                 push_pull_stops |-> roll_data.push_pull_stops,
                 chemistry_id |-> chemistry_id,
                 stars |-> roll_data.stars,
                 film_cost |-> roll_data.film_cost,
                 not_mine |-> roll_data.not_mine,
                 notes |-> roll_data.notes,
                 updated_at |-> 0])
      /\ NoRequest
      /\ UNCHANGED <<batches, chart, minted, parts, idx, phase>>

CreateFilmRoll == CreateFilmRollOf(RollInputs, MaxRolls)

\* create_chemistry_batch
CreateChemistryBatchOf(inputs, max) ==
  \E batch_data \in inputs :
    /\ request = None
    /\ Len(batches) < max
    /\ batches' = Append(batches,
         [id |-> BatchId(Len(batches) + 1),
          name |-> batch_data.name,
          developer_cost |-> batch_data.developer_cost,
          fixer_cost |-> batch_data.fixer_cost,
          other_cost |-> batch_data.other_cost,
          rolls_offset |-> batch_data.rolls_offset,
          updated_at |-> 0])
    /\ NoRequest
    /\ UNCHANGED <<rolls, chart, minted, parts, idx, phase>>

CreateChemistryBatch == CreateChemistryBatchOf(BatchInputs, MaxBatches)

\* GET /api/rolls: list_film_rolls on the current store
ListFilmRollsOf(inputs, faults) ==
  /\ request = None
  /\ \E req \in inputs, flt \in faults :
       \E out \in {list_film_rolls(req.search, req.skip, req.limit,
                                    req.status, req.order_id, rolls, batches, flt)} :
         /\ request' = Some(req)
         /\ fault' = flt
         /\ query' = IF req.search = None THEN <<>> ELSE req.search[1]
         /\ tokens' = out.tokens
         /\ sql_filters' = out.sql_filters
         /\ computed_filters' = out.computed_filters
         /\ fetched' = out.fetched
         /\ filtered' = out.filtered
         /\ calls' = out.calls
         /\ local_total' = out.total
         /\ response' =
              IF out.status_code = 200
              THEN Some([status_code |-> 200, rolls |-> out.rolls, total |-> out.total])
              ELSE Some([status_code |-> out.status_code, detail |-> out.detail[1]])
         /\ UNCHANGED <<storeVars, parts, idx, phase>>

ListFilmRolls == ListFilmRollsOf(RequestInputs, {None})

\* list_film_rolls returns (line 102): the response is sent and the locals
\* of the request are gone
ReturnResponse ==
  /\ request # None
  /\ NoRequest
  /\ UNCHANGED <<storeVars, parts, idx, phase>>

Next == CreateFilmRoll \/ CreateChemistryBatch \/ ListFilmRolls \/ ReturnResponse

Spec == Init /\ [][Next]_vars

(***************************************************************************)
(* Specification SpecMalformed: the same store, queried with search        *)
(* strings whose field values cannot be parsed.                            *)
(***************************************************************************)
ListMalformed == ListFilmRollsOf(MalformedInputs, {None})

MalformedNext ==
  CreateFilmRoll \/ CreateChemistryBatch \/ ListMalformed \/ ReturnResponse

SpecMalformed == Init /\ [][MalformedNext]_vars

(***************************************************************************)
(* Specification SpecFields: the same store, queried through the fields    *)
(* with a builder of their own (mine, not_mine, chemistry), while the      *)
(* store may fail in one of the calls of the request.                      *)
(***************************************************************************)
\* words for the boolean flag and for the batch-name lookup: names that
\* match a batch, one that matches none, one with a comparison operator and
\* one with a LIKE wildcard; a text word and a computed field
FieldWords ==
  { <<"m","i","n","e",":","t","r","u","e">>,
    <<"n","o","t","_","m","i","n","e",":","t","r","u","e">>,
    <<"m","i","n","e",":","n","o">>,
    <<"n","o","t","_","m","i","n","e",":","n","o">>,
    <<"c","h","e","m","i","s","t","r","y",":","c","4","1">>,
    <<"c","h","e","m","i","s","t","r","y",":","e","6">>,
    <<"c","h","e","m","i","s","t","r","y",":",">","K","I","T">>,
    <<"c","h","e","m","i","s","t","r","y",":","c","_","1">>,
    <<"e","k">>,
    <<"c","o","s","t",":",">","2","0">> }

\* a query of one word, or a chemistry word followed by another word
FieldQueries ==
  FieldWords \cup
  {<<"c","h","e","m","i","s","t","r","y",":","c","4","1">> \o <<" ">> \o w : w \in FieldWords}

FieldInputs == {Request(Some(q), 0, 100, None, None) : q \in FieldQueries}

\* the store call of the request that fails, with the message of the
\* exception the driver raises; None when the store does not fail
FaultInputs ==
  {None} \cup
  {Some([at |-> a, message |-> "database is locked"]) : a \in {"lookup", "count", "all"}}

ListFields == ListFilmRollsOf(FieldInputs, FaultInputs)

FieldsNext == CreateFilmRoll \/ CreateChemistryBatch \/ ListFields \/ ReturnResponse

SpecFields == Init /\ [][FieldsNext]_vars

(***************************************************************************)
(* The handlers that write rows of film_rolls and chemistry_batches.  The  *)
(* body of a PUT request is the function model_dump(exclude_unset=True)    *)
(* returns: from the fields the body sets to Some(v), or None for a JSON   *)
(* null.  updated_at is the number of UPDATE statements a row has seen:    *)
(* onupdate=datetime.utcnow gives it a new value with each of them, and    *)
(* with nothing else.  The columns expected_exposures and actual_exposures *)
(* of a roll and chemistry_type, date_mixed, date_retired and notes of a   *)
(* batch, which no handler reads, are left out.                            *)
(***************************************************************************)
\* the position of the row with this id (.filter(id == ...).first()), 0
\* when there is none
RowIndex(rows, id) ==
  IF \E i \in DOMAIN rows : rows[i].id = id
  THEN CHOOSE i \in DOMAIN rows : rows[i].id = id
  ELSE 0

\* the loop of setattr over update_data.items().  The columns of plain are
\* the required ones of a row that holds them without Some
SetAttrs(row, update_data, plain) ==
  [f \in DOMAIN row |->
     IF f \notin DOMAIN update_data THEN row[f]
     ELSE IF f \in plain THEN update_data[f][1] ELSE update_data[f]]

\* the row after the UPDATE statement of db.commit(): no statement is
\* issued, and updated_at keeps its value, when no attribute has changed
Flushed(row, update_data, plain) ==
  IF SetAttrs(row, update_data, plain) = row THEN row
  ELSE [SetAttrs(row, update_data, plain) EXCEPT !.updated_at = @ + 1]

ReplaceAt(rows, i, row) == [rows EXCEPT ![i] = row]

\* the columns of FilmRoll and ChemistryBatch declared nullable=False that
\* a request body can name
RollRequired == {"order_id", "film_stock_name", "film_format", "film_cost", "not_mine"}

BatchRequired == {"name", "developer_cost", "fixer_cost", "other_cost", "rolls_offset"}

\* `if roll_data.chemistry_id:`, `if query.dilution_ratio:` - the truth
\* value of an Optional[str]
TruthyStr(opt) == opt # None /\ opt[1] # <<>>

\* `if query.temperature_celsius:` - the truth value of an Optional[Decimal]
TruthyDecimal(opt) == opt # None /\ opt[1] # 0

\* roll_data.chemistry_id and the like: the attribute of a pydantic model,
\* None when the body does not set it
Attr(data, f) == IF f \in DOMAIN data THEN data[f] ELSE None

\* db.commit() raises IntegrityError: a NULL for a NOT NULL column, or a
\* chemistry_id that is the id of no batch (PRAGMA foreign_keys=ON)
IntegrityError(update_data, required, bs) ==
  \/ \E f \in DOMAIN update_data \cap required : update_data[f] = None
  \/ /\ Attr(update_data, "chemistry_id") # None
     /\ RowIndex(bs, update_data["chemistry_id"][1]) = 0

\* what a handler leaves behind: the two tables and the response
StoreResult(rs, bs, status_code, body) ==
  [rolls |-> rs, batches |-> bs, response |-> [status_code |-> status_code, body |-> body]]

ChemistryNotFound(chemistry_id) ==
  <<"Chemistry batch with id ", chemistry_id, " not found">>

\* the setattr calls of a handler and its db.commit(), the roll being at
\* position i: an IntegrityError is not caught, the framework answers 500
\* and the session is closed without a commit
CommitRoll(i, update_data, rs, bs) ==
  IF IntegrityError(update_data, RollRequired, bs)
  THEN StoreResult(rs, bs, 500, <<"Internal Server Error">>)
  ELSE StoreResult(ReplaceAt(rs, i, Flushed(rs[i], update_data, RollRequired)), bs, 200,
                   Flushed(rs[i], update_data, RollRequired))

\* a plausible slip: model_dump() without exclude_unset, the fields the
\* body leaves out set to null
UpdateFilmRollAll(roll_id, roll_data, rs, bs) ==
  IF RowIndex(rs, roll_id) = 0 THEN StoreResult(rs, bs, 404, <<"Film roll not found">>)
  ELSE CommitRoll(RowIndex(rs, roll_id),
                  [f \in {"stars", "notes", "date_loaded", "date_unloaded"} \cup DOMAIN roll_data |->
                     Attr(roll_data, f)],
                  rs, bs)

\* update_film_roll
update_film_roll(roll_id, roll_data, rs, bs) ==
  IF RowIndex(rs, roll_id) = 0 THEN StoreResult(rs, bs, 404, <<"Film roll not found">>)
  ELSE IF /\ TruthyStr(Attr(roll_data, "chemistry_id"))
          /\ RowIndex(bs, roll_data["chemistry_id"][1]) = 0
       THEN StoreResult(rs, bs, 404, ChemistryNotFound(roll_data["chemistry_id"][1]))
       ELSE CommitRoll(RowIndex(rs, roll_id), roll_data, rs, bs)

\* update_chemistry_batch
update_chemistry_batch(batch_id, batch_data, rs, bs) ==
  IF RowIndex(bs, batch_id) = 0 THEN StoreResult(rs, bs, 404, <<"Chemistry batch not found">>)
  ELSE IF IntegrityError(batch_data, BatchRequired, bs)
       THEN StoreResult(rs, bs, 500, <<"Internal Server Error">>)
       ELSE StoreResult(rs,
              ReplaceAt(bs, RowIndex(bs, batch_id),
                        Flushed(bs[RowIndex(bs, batch_id)], batch_data, BatchRequired)),
              200, Flushed(bs[RowIndex(bs, batch_id)], batch_data, BatchRequired))

\* load_roll
load_roll(roll_id, data, rs, bs) ==
  IF RowIndex(rs, roll_id) = 0 THEN StoreResult(rs, bs, 404, <<"Film roll not found">>)
  ELSE CommitRoll(RowIndex(rs, roll_id), [f \in {"date_loaded"} |-> Some(data.date_loaded)],
                  rs, bs)

\* unload_roll
unload_roll(roll_id, data, rs, bs) ==
  IF RowIndex(rs, roll_id) = 0 THEN StoreResult(rs, bs, 404, <<"Film roll not found">>)
  ELSE CommitRoll(RowIndex(rs, roll_id), [f \in {"date_unloaded"} |-> Some(data.date_unloaded)],
                  rs, bs)

\* assign_chemistry: lab_dev_cost is no column of FilmRoll, so
\* `roll.lab_dev_cost = ...` sets an attribute of the Python object that
\* db.commit() does not store
assign_chemistry(roll_id, data, rs, bs) ==
  IF RowIndex(rs, roll_id) = 0 THEN StoreResult(rs, bs, 404, <<"Film roll not found">>)
  ELSE IF TruthyStr(data.chemistry_id)
       THEN IF RowIndex(bs, data.chemistry_id[1]) = 0
            THEN StoreResult(rs, bs, 404, ChemistryNotFound(data.chemistry_id[1]))
            ELSE CommitRoll(RowIndex(rs, roll_id),
                            [f \in {"chemistry_id"} |-> data.chemistry_id], rs, bs)
       ELSE IF data.lab_dev_cost # None
            THEN CommitRoll(RowIndex(rs, roll_id), [f \in {"chemistry_id"} |-> None], rs, bs)
            ELSE StoreResult(rs, bs, 400,
                             <<"Either chemistry_id or lab_dev_cost must be provided">>)

\* rate_roll
rate_roll(roll_id, data, rs, bs) ==
  IF RowIndex(rs, roll_id) = 0 THEN StoreResult(rs, bs, 404, <<"Film roll not found">>)
  ELSE CommitRoll(RowIndex(rs, roll_id), [f \in {"stars"} |-> Some(data.stars)], rs, bs)

(***************************************************************************)
(* The development chart (api/dev_chart.py).  A DevelopmentChart row has    *)
(* id, film_stock, developer, iso_rating, dilution_ratio,                  *)
(* temperature_celsius (tenths of a degree), development_time_seconds,     *)
(* agitation_notes, notes and updated_at.  updated_at is the number of     *)
(* UPDATE statements the row has seen: onupdate=datetime.utcnow gives it a *)
(* new value with each of them, and with nothing else.  A column a request *)
(* body can set holds Some(v), or None for SQL NULL.                       *)
(***************************************************************************)
\* the id generate_uuid gives the k-th row the table has ever had
ChartId(k) == <<"d", DigitSeq[k + 1]>>

\* the columns declared nullable=False that a request body can name
ChartRequired ==
  {"film_stock", "developer", "iso_rating", "dilution_ratio", "temperature_celsius",
   "development_time_seconds"}

\* the five fields that identify a datapoint
ChartKey(e) ==
  <<e.film_stock, e.developer, e.iso_rating, e.dilution_ratio, e.temperature_celsius>>

\* db.commit() raises IntegrityError when the rows break a constraint the
\* table declares: the primary key on id and the NOT NULL columns.  The
\* class DevelopmentChart declares no other constraint.
ChartIntegrityError(rows) ==
  \/ \E i, j \in DOMAIN rows : i # j /\ rows[i].id = rows[j].id
  \/ \E i \in DOMAIN rows, c \in ChartRequired : rows[i][c] = None

\* what a handler leaves behind: the table, the ids given, the response
ChartResult(rows, n, status_code, body) ==
  [chart |-> rows, minted |-> n, response |-> [status_code |-> status_code, body |-> body]]

NotFound(entry_id) ==
  <<"Development chart entry ", entry_id, " not found">>

\* DevelopmentChart(**entry_data.model_dump()), with the id given at flush
NewEntry(entry_data, n) ==
  [id |-> ChartId(n + 1),
   film_stock |-> entry_data.film_stock,
   developer |-> entry_data.developer,
   iso_rating |-> entry_data.iso_rating,
   dilution_ratio |-> entry_data.dilution_ratio,
   temperature_celsius |-> entry_data.temperature_celsius,
   development_time_seconds |-> entry_data.development_time_seconds,
   agitation_notes |-> entry_data.agitation_notes,
   notes |-> entry_data.notes,
   updated_at |-> 0]

\* the except branch of create_dev_chart_entry (lines 85-106): the id of
\* the first row with the same five fields, "unknown" when there is none
ExistingId(entry_data, rows) ==
  IF \E i \in DOMAIN rows : ChartKey(rows[i]) = ChartKey(entry_data)
  THEN rows[CHOOSE i \in DOMAIN rows :
              /\ ChartKey(rows[i]) = ChartKey(entry_data)
              /\ \A j \in 1..(i - 1) : ChartKey(rows[j]) # ChartKey(entry_data)].id
  ELSE <<"u","n","k","n","o","w","n">>

\* create_dev_chart_entry
create_dev_chart_entry(entry_data, rows, n) ==
  IF ~ChartIntegrityError(Append(rows, NewEntry(entry_data, n)))
  THEN ChartResult(Append(rows, NewEntry(entry_data, n)), n + 1, 201, NewEntry(entry_data, n))
  ELSE ChartResult(rows, n + 1, 409,
                   <<"Entry already exists", ExistingId(entry_data, rows)>>)

\* update_dev_chart_entry, the entry being at position i (0 for none): an
\* IntegrityError of db.commit() is not caught, the framework answers 500
\* and the session is closed without a commit
UpdateEntryAt(i, entry_id, update_data, rows, n) ==
  IF i = 0 THEN ChartResult(rows, n, 404, NotFound(entry_id))
  ELSE IF ChartIntegrityError(ReplaceAt(rows, i, Flushed(rows[i], update_data, {})))
       THEN ChartResult(rows, n, 500, <<"Internal Server Error">>)
       ELSE ChartResult(ReplaceAt(rows, i, Flushed(rows[i], update_data, {})), n, 200,
                        Flushed(rows[i], update_data, {}))

\* update_dev_chart_entry
update_dev_chart_entry(entry_id, entry_data, rows, n) ==
  UpdateEntryAt(RowIndex(rows, entry_id), entry_id, entry_data, rows, n)

\* delete_dev_chart_entry
delete_dev_chart_entry(entry_id, rows, n) ==
  IF RowIndex(rows, entry_id) = 0 THEN ChartResult(rows, n, 404, NotFound(entry_id))
  ELSE ChartResult(SelectSeq(rows, LAMBDA e : e.id # entry_id), n, 204, None)

(***************************************************************************)
(* Specification SpecChart: the development chart written through create,  *)
(* update and delete requests, one at a time.                              *)
(***************************************************************************)
\* rows the table has ever had
MaxChart == 3

\* UPDATE statements per row
MaxUpdates == 1

\* request bodies of POST /api/dev-chart: two datapoints of one film and
\* developer that differ in the ISO rating
ChartInputs ==
  { [film_stock |-> Some(<<"H","P","5">>), developer |-> Some(<<"I","D","1","1">>),
     iso_rating |-> Some(400), dilution_ratio |-> Some(<<"1","+","1">>),
     temperature_celsius |-> Some(200), development_time_seconds |-> Some(390),
     agitation_notes |-> None, notes |-> None],
    [film_stock |-> Some(<<"H","P","5">>), developer |-> Some(<<"I","D","1","1">>),
     iso_rating |-> Some(800), dilution_ratio |-> Some(<<"1","+","1">>),
     temperature_celsius |-> Some(200), development_time_seconds |-> Some(660),
     agitation_notes |-> None, notes |-> Some(<<"p","u","s","h">>)] }

\* request bodies of PUT /api/dev-chart/{id}: the fields set in the body.
\* A key field, two other fields, an explicit null for a required column,
\* an explicit null for an optional column, and the empty body.
ChartUpdateInputs ==
  { [f \in {"iso_rating"} |-> Some(800)],
    ("development_time_seconds" :> Some(420)) @@ ("notes" :> Some(<<"t","e","s","t">>)),
    [f \in {"film_stock"} |-> None],
    [f \in {"notes"} |-> None],
    [f \in {} |-> None] }

\* the ids requests are addressed to: those given so far and one never given
ChartIds == {ChartId(k) : k \in 1..(minted.development_chart + 1)}

\* a request to the development chart has been handled
ChartDone(req, out) ==
  /\ request' = Some(req)
  /\ chart' = out.chart
  /\ minted' = [minted EXCEPT !.development_chart = out.minted]
  /\ response' = Some(out.response)
  /\ UNCHANGED <<parseVars, rolls, batches, sql_filters, computed_filters, fetched,
                 filtered, fault, calls, local_total>>

\* POST /api/dev-chart
CreateDevChartEntryOf(inputs, max) ==
  /\ request = None
  /\ minted.development_chart < max
  /\ \E entry_data \in inputs :
       ChartDone([op |-> "create_dev_chart_entry", entry_data |-> entry_data],
                 create_dev_chart_entry(entry_data, chart, minted.development_chart))

CreateDevChartEntry == CreateDevChartEntryOf(ChartInputs, MaxChart)

\* PUT /api/dev-chart/{entry_id}
UpdateDevChartEntry ==
  /\ request = None
  /\ \E entry_id \in ChartIds, entry_data \in ChartUpdateInputs :
       /\ \A i \in DOMAIN chart : chart[i].id = entry_id => chart[i].updated_at < MaxUpdates
       /\ ChartDone([op |-> "update_dev_chart_entry", id |-> entry_id, data |-> entry_data],
                    update_dev_chart_entry(entry_id, entry_data, chart,
                                           minted.development_chart))

\* DELETE /api/dev-chart/{entry_id}
DeleteDevChartEntry ==
  /\ request = None
  /\ \E entry_id \in ChartIds :
       ChartDone([op |-> "delete_dev_chart_entry", id |-> entry_id],
                 delete_dev_chart_entry(entry_id, chart, minted.development_chart))

ChartNext ==
  CreateDevChartEntry \/ UpdateDevChartEntry \/ DeleteDevChartEntry \/ ReturnResponse

SpecChart == Init /\ [][ChartNext]_vars

(***************************************************************************)
(* lookup_dev_time.  A DevelopmentChartLookupQuery has film_stock,         *)
(* developer, iso_rating and the Optional dilution_ratio and               *)
(* temperature_celsius.                                                    *)
(***************************************************************************)
\* .limit(5) of the suggestions query
SuggestionLimit == 5

\* and_(*filters) of the exact match (lines 180-190) on a row
ExactMatch(e, q) ==
  /\ e.film_stock = Some(q.film_stock)
  /\ e.developer = Some(q.developer)
  /\ e.iso_rating = Some(q.iso_rating)
  /\ TruthyStr(q.dilution_ratio) => e.dilution_ratio = q.dilution_ratio
  /\ TruthyDecimal(q.temperature_celsius) => e.temperature_celsius = q.temperature_celsius

\* the filter of the suggestions query (lines 203-206)
SameFilmAndDeveloper(e, q) ==
  e.film_stock = Some(q.film_stock) /\ e.developer = Some(q.developer)

\* ORDER BY iso_rating, dilution_ratio, temperature_celsius: a sorts
\* strictly before b
OrderedBefore(a, b) ==
  \/ a.iso_rating[1] < b.iso_rating[1]
  \/ /\ a.iso_rating = b.iso_rating
     /\ \/ StrLess(a.dilution_ratio[1], b.dilution_ratio[1])
        \/ /\ a.dilution_ratio = b.dilution_ratio
           /\ a.temperature_celsius[1] < b.temperature_celsius[1]

\* e put into the sorted sequence, after the rows it does not sort before
Insert(sorted, e) ==
  LET k == Cardinality({i \in DOMAIN sorted : ~OrderedBefore(e, sorted[i])})
  IN SubSeq(sorted, 1, k) \o <<e>> \o SubSeq(sorted, k + 1, Len(sorted))

\* the rows in the order of ORDER BY, rows with equal keys in table order
RECURSIVE OrderBy(_, _)
OrderBy(rows, i) ==
  IF i = 0 THEN <<>> ELSE Insert(OrderBy(rows, i - 1), rows[i])

\* suggestions_query.all()
Suggestions(q, rows) ==
  Page(OrderBy(SelectSeq(rows, LAMBDA e : SameFilmAndDeveloper(e, q)),
               Len(SelectSeq(rows, LAMBDA e : SameFilmAndDeveloper(e, q)))),
       0, SuggestionLimit)

LookupResponse(found, entry, suggestions) ==
  [found |-> found, entry |-> entry, suggestions |-> suggestions]

\* a plausible slip: the suggestions filtered by film stock only
LookupByFilmOnly(q, rows, n) ==
  IF SelectSeq(rows, LAMBDA e : ExactMatch(e, q)) # <<>>
  THEN ChartResult(rows, n, 200,
         LookupResponse(TRUE, Some(Head(SelectSeq(rows, LAMBDA e : ExactMatch(e, q)))), None))
  ELSE ChartResult(rows, n, 200,
         LookupResponse(FALSE, None,
           IF SelectSeq(rows, LAMBDA e : e.film_stock = Some(q.film_stock)) = <<>> THEN None
           ELSE Some(Page(SelectSeq(rows, LAMBDA e : e.film_stock = Some(q.film_stock)),
                          0, SuggestionLimit))))

\* lookup_dev_time
lookup_dev_time(q, rows, n) ==
  IF SelectSeq(rows, LAMBDA e : ExactMatch(e, q)) # <<>>
  THEN ChartResult(rows, n, 200,
         LookupResponse(TRUE, Some(Head(SelectSeq(rows, LAMBDA e : ExactMatch(e, q)))), None))
  ELSE ChartResult(rows, n, 200,
         LookupResponse(FALSE, None,
           IF Suggestions(q, rows) = <<>> THEN None ELSE Some(Suggestions(q, rows))))

(***************************************************************************)
(* Specification SpecLookup: a chart filled through create requests and    *)
(* read through lookup_dev_time.                                           *)
(***************************************************************************)
\* rows of the chart
MaxEntries == 6

\* request bodies of POST /api/dev-chart: the two datapoints of ChartInputs
\* and one of another developer at another temperature
LookupEntries ==
  ChartInputs \cup
  { [film_stock |-> Some(<<"H","P","5">>), developer |-> Some(<<"D","7","6">>),
     iso_rating |-> Some(400), dilution_ratio |-> Some(<<"1","+","1">>),
     temperature_celsius |-> Some(240), development_time_seconds |-> Some(540),
     agitation_notes |-> None, notes |-> None] }

LookupQuery(film_stock, developer, iso_rating, dilution_ratio, temperature_celsius) ==
  [film_stock |-> film_stock, developer |-> developer, iso_rating |-> iso_rating,
   dilution_ratio |-> dilution_ratio, temperature_celsius |-> temperature_celsius]

\* request bodies of POST /api/dev-chart/lookup: with and without the
\* optional fields, an empty dilution ratio, an ISO rating, a dilution, a
\* temperature and a film that no entry has
LookupInputs ==
  { LookupQuery(<<"H","P","5">>, <<"I","D","1","1">>, 400, None, None),
    LookupQuery(<<"H","P","5">>, <<"I","D","1","1">>, 800, Some(<<"1","+","1">>), Some(200)),
    LookupQuery(<<"H","P","5">>, <<"I","D","1","1">>, 400, Some(<<"1","+","9">>), None),
    LookupQuery(<<"H","P","5">>, <<"I","D","1","1">>, 400, Some(<<>>), None),
    LookupQuery(<<"H","P","5">>, <<"I","D","1","1">>, 1600, None, None),
    LookupQuery(<<"H","P","5">>, <<"D","7","6">>, 400, None, Some(200)),
    LookupQuery(<<"T","r","i","X">>, <<"I","D","1","1">>, 400, None, None) }

CreateLookupEntry == CreateDevChartEntryOf(LookupEntries, MaxEntries)

\* POST /api/dev-chart/lookup
LookupDevTime ==
  /\ request = None
  /\ \E q \in LookupInputs :
       ChartDone([op |-> "lookup_dev_time", query |-> q],
                 lookup_dev_time(q, chart, minted.development_chart))

LookupNext == CreateLookupEntry \/ LookupDevTime \/ ReturnResponse

SpecLookup == Init /\ [][LookupNext]_vars

(***************************************************************************)
(* Specification SpecStore: rolls and batches written through every        *)
(* handler of api/rolls.py and api/chemistry.py that creates or changes a  *)
(* row, one request at a time.                                             *)
(***************************************************************************)
\* request bodies of POST /api/rolls, without chemistry_id: a roll never
\* loaded and a friend's roll already unloaded
StoreRolls ==
  { [order_id |-> <<"1">>, film_stock_name |-> <<"H","P","5">>, film_format |-> <<"3","5","m","m">>,
     date_loaded |-> None, date_unloaded |-> None, push_pull_stops |-> None,
     stars |-> None, film_cost |-> 800, not_mine |-> FALSE, notes |-> None],
    [order_id |-> <<"2">>, film_stock_name |-> <<"E","k","t","a","r">>, film_format |-> <<"1","2","0">>,
     date_loaded |-> Some(20240501), date_unloaded |-> Some(20240510),
     push_pull_stops |-> Some(10),
     stars |-> None, film_cost |-> 1500, not_mine |-> TRUE, notes |-> None] }

\* request bodies of POST /api/chemistry: the batch of BatchInputs and one
\* whose rolls_offset takes a roll off the count
StoreBatches ==
  BatchInputs \cup
  { [name |-> <<"D","7","6">>, developer_cost |-> 600, fixer_cost |-> 300,
     other_cost |-> 0, rolls_offset |-> 0 - 1] }

\* request bodies of PUT /api/rolls/{id}: two optional fields, a batch, an
\* explicit null for a required column, an explicit null for an optional
\* column with a new film cost, and the empty body
RollUpdateInputs ==
  { ("stars" :> Some(4)) @@ ("notes" :> Some(<<"o","k">>)),
    [f \in {"chemistry_id"} |-> Some(BatchId(1))],
    [f \in {"order_id"} |-> None],
    ("date_unloaded" :> None) @@ ("film_cost" :> Some(900)),
    [f \in {} |-> None] }

\* request bodies of PUT /api/chemistry/{id}
BatchUpdateInputs ==
  { [f \in {"rolls_offset"} |-> Some(0 - 1)],
    [f \in {"developer_cost"} |-> Some(2000)],
    [f \in {"name"} |-> None] }

\* request bodies of PATCH /api/rolls/{id}/chemistry: a batch, a lab cost,
\* neither
AssignInputs ==
  { [chemistry_id |-> Some(BatchId(1)), lab_dev_cost |-> None],
    [chemistry_id |-> Some(BatchId(2)), lab_dev_cost |-> None],
    [chemistry_id |-> None, lab_dev_cost |-> Some(500)],
    [chemistry_id |-> None, lab_dev_cost |-> None] }

\* the ids requests are addressed to: those of the rows and one of no row
RollIds == {RollId(k) : k \in 1..(Len(rolls) + 1)}

BatchIds == {BatchId(k) : k \in 1..(Len(batches) + 1)}

\* the UPDATE statements the store has seen
RECURSIVE SumUpdatedAt(_, _)
SumUpdatedAt(rows, i) ==
  IF i = 0 THEN 0 ELSE rows[i].updated_at + SumUpdatedAt(rows, i - 1)

UpdatesSeen ==
  SumUpdatedAt(rolls, Len(rolls)) + SumUpdatedAt(batches, Len(batches))
    + SumUpdatedAt(chart, Len(chart))

\* a request that writes rolls or batches has been handled
StoreDone(req, out) ==
  /\ request' = Some(req)
  /\ rolls' = out.rolls
  /\ batches' = out.batches
  /\ response' = Some(out.response)
  /\ UNCHANGED <<parseVars, chart, minted, sql_filters, computed_filters, fetched,
                 filtered, fault, calls, local_total>>

CreateStoreRoll == CreateFilmRollOf(StoreRolls, MaxRolls)

CreateStoreBatch == CreateChemistryBatchOf(StoreBatches, MaxBatches)

\* PUT /api/rolls/{roll_id}
UpdateFilmRoll ==
  /\ request = None
  /\ UpdatesSeen < MaxUpdates
  /\ \E roll_id \in RollIds, roll_data \in RollUpdateInputs :
       StoreDone([op |-> "update_film_roll", id |-> roll_id, data |-> roll_data],
                 update_film_roll(roll_id, roll_data, rolls, batches))

\* PUT /api/chemistry/{batch_id}
UpdateChemistryBatch ==
  /\ request = None
  /\ UpdatesSeen < MaxUpdates
  /\ \E batch_id \in BatchIds, batch_data \in BatchUpdateInputs :
       StoreDone([op |-> "update_chemistry_batch", id |-> batch_id, data |-> batch_data],
                 update_chemistry_batch(batch_id, batch_data, rolls, batches))

\* PATCH /api/rolls/{roll_id}/load
LoadRoll ==
  /\ request = None
  /\ UpdatesSeen < MaxUpdates
  /\ \E roll_id \in RollIds :
       StoreDone([op |-> "load_roll", id |-> roll_id, data |-> [date_loaded |-> 20240601]],
                 load_roll(roll_id, [date_loaded |-> 20240601], rolls, batches))

\* PATCH /api/rolls/{roll_id}/unload
UnloadRoll ==
  /\ request = None
  /\ UpdatesSeen < MaxUpdates
  /\ \E roll_id \in RollIds :
       StoreDone([op |-> "unload_roll", id |-> roll_id, data |-> [date_unloaded |-> 20240610]],
                 unload_roll(roll_id, [date_unloaded |-> 20240610], rolls, batches))

\* PATCH /api/rolls/{roll_id}/chemistry
AssignChemistry ==
  /\ request = None
  /\ UpdatesSeen < MaxUpdates
  /\ \E roll_id \in RollIds, data \in AssignInputs :
       StoreDone([op |-> "assign_chemistry", id |-> roll_id, data |-> data],
                 assign_chemistry(roll_id, data, rolls, batches))

\* PATCH /api/rolls/{roll_id}/rating
RateRoll ==
  /\ request = None
  /\ UpdatesSeen < MaxUpdates
  /\ \E roll_id \in RollIds :
       StoreDone([op |-> "rate_roll", id |-> roll_id, data |-> [stars |-> 4]],
                 rate_roll(roll_id, [stars |-> 4], rolls, batches))

StoreNext ==
  \/ CreateStoreRoll \/ CreateStoreBatch
  \/ UpdateFilmRoll \/ UpdateChemistryBatch
  \/ LoadRoll \/ UnloadRoll \/ AssignChemistry \/ RateRoll
  \/ ReturnResponse

SpecStore == Init /\ [][StoreNext]_vars

(***************************************************************************)
(* Specification SpecUpdate: the three tables, each with few rows, written *)
(* through their PUT handlers.                                             *)
(***************************************************************************)
\* rows of each table
MaxRecords == 2

\* one request body for each table
RecordRolls == {r \in StoreRolls : r.not_mine}

RecordEntries == {e \in ChartInputs : e.notes = None}

CreateRecordRoll == CreateFilmRollOf(RecordRolls, MaxRecords)

CreateRecordBatch == CreateChemistryBatchOf(BatchInputs, MaxRecords)

CreateRecordEntry == CreateDevChartEntryOf(RecordEntries, MaxRecords)

\* PUT /api/dev-chart/{entry_id}
UpdateRecordEntry ==
  /\ request = None
  /\ UpdatesSeen < MaxUpdates
  /\ \E entry_id \in ChartIds, entry_data \in ChartUpdateInputs :
       ChartDone([op |-> "update_dev_chart_entry", id |-> entry_id, data |-> entry_data],
                 update_dev_chart_entry(entry_id, entry_data, chart,
                                        minted.development_chart))

UpdateNext ==
  \/ CreateRecordRoll \/ CreateRecordBatch \/ CreateRecordEntry
  \/ UpdateFilmRoll \/ UpdateChemistryBatch \/ UpdateRecordEntry
  \/ ReturnResponse

SpecUpdate == Init /\ [][UpdateNext]_vars

(***************************************************************************)
(* Specification SpecApply: apply_computed_filters called on the rows of a *)
(* store with bounded lists of computed filters, the empty list included.  *)
(***************************************************************************)
MaxFilters == 2

\* computed filters as build_filters emits them
FilterInputs ==
  { <<"status", op_eq, <<"l","o","a","d","e","d">>>>, <<"status", op_eq, <<"S","C","A","N","N","E","D">>>>,
    <<"status", op_ge, <<"n","e","w">>>>, <<"total_cost", op_gt, <<"2","0">>>>,
    <<"total_cost", op_le, <<"1","9",".","5">>>>, <<"total_cost", op_eq, <<"z">>>> }

RECURSIVE FilterLists(_)
FilterLists(n) ==
  IF n = 0 THEN {<<>>}
  ELSE LET prev == FilterLists(n - 1)
       IN prev \cup {<<cf>> \o l : cf \in FilterInputs, l \in prev}

\* parser.apply_computed_filters(rolls, computed_filters)
ApplyComputedFilters ==
  \E cfs \in FilterLists(MaxFilters) :
    /\ filtered = None
    /\ fetched' = rolls
    /\ computed_filters' = cfs
    /\ filtered' = Some(apply_computed_filters(rolls, cfs, rolls, batches))
    /\ UNCHANGED <<parseVars, storeVars, request, sql_filters, response, fault, calls, local_total>>

ApplyNext == CreateFilmRoll \/ CreateChemistryBatch \/ ApplyComputedFilters

SpecApply == Init /\ [][ApplyNext]_vars

(***************************************************************************)
(* Properties of the search pipeline.                                      *)
(***************************************************************************)
\* a response to a request in search mode is in hand
SearchMode ==
  /\ request # None
  /\ request[1].search # None
  /\ request[1].search[1] # <<>>

\* C1: in search mode the rolls returned are exactly the stored rolls that
\* satisfy every store filter and every computed filter of the query, each
\* once, whatever skip and limit are.
C1_ExactMatches ==
  SearchMode =>
    LET res == response[1].rolls
    IN /\ \A k \in DOMAIN rolls :
            (\E j \in DOMAIN res : res[j] = rolls[k])
            <=> /\ \A i \in DOMAIN sql_filters : EvalFilter(sql_filters[i], rolls[k]) = "T"
                /\ \A i \in DOMAIN computed_filters :
                     FilterPasses(rolls[k], computed_filters[i], rolls, batches)
       /\ \A j \in DOMAIN res : res[j] \in Range(rolls)
       /\ \A i, j \in DOMAIN res : i # j => res[i] # res[j]

\* a search with skip = 1 and limit = 1, a store filter and a computed
\* filter, answered with some but not all of the stored rolls
C1_Witness ==
  /\ SearchMode
  /\ request[1].skip = 1
  /\ request[1].limit = 1
  /\ sql_filters # <<>>
  /\ computed_filters # <<>>
  /\ Len(response[1].rolls) >= 1
  /\ Len(response[1].rolls) < Len(rolls)

\* C2: in search mode the reported total is the number of rolls in the
\* response, with and without computed filters.
C2_TotalIsLength ==
  SearchMode => response[1].total = Len(response[1].rolls)

\* computed filters removed records: the store-level count is larger than
\* the total reported
C2_Witness ==
  /\ SearchMode
  /\ computed_filters # <<>>
  /\ Len(response[1].rolls) >= 1
  /\ QueryCount(rolls, sql_filters) > response[1].total

IsComputedToken(t) == t.field \in {Some(k_status), Some(k_cost)}

C8_Triple(t) ==
  <<IF t.field = Some(k_status) THEN "status" ELSE "total_cost", t.operator, t.value>>

\* the store filter of a token that is not computed: none or one
C8_StoreFilter(t) ==
  IF t.field = None THEN <<_build_text_search_filter(t.value)>>
  ELSE LET r == _build_field_filter(t, batches)
       IN IF r = None \/ r[1].tag = "str" THEN <<>> ELSE <<r[1].f>>

RECURSIVE Flatten(_)
Flatten(ss) == IF ss = <<>> THEN <<>> ELSE ss[1] \o Flatten(Tail(ss))

\* C8: each status or cost token gives exactly one computed filter
\* (resolved name, operator, raw value) and no store filter; each other
\* token gives no computed filter and at most one store filter; both lists
\* are in token order.
C8_Partition ==
  SearchMode =>
    LET computed == SelectSeq(tokens, IsComputedToken)
        stored   == SelectSeq(tokens, LAMBDA t : ~IsComputedToken(t))
    IN /\ computed_filters = [i \in DOMAIN computed |-> C8_Triple(computed[i])]
       /\ sql_filters = Flatten([i \in DOMAIN stored |-> C8_StoreFilter(stored[i])])

\* a text token followed by a format token: two store filters, the text
\* search first
C8_Witness ==
  /\ SearchMode
  /\ Len(tokens) = 2
  /\ tokens[1].field = None
  /\ tokens[2].field = Some(k_format)
  /\ Len(sql_filters) = 2
  /\ sql_filters[1].kind = "or"
  /\ sql_filters[2].kind = "ilike"

\* C9: apply_computed_filters returns the records for which every computed
\* filter holds, in their original order and unaltered; with no computed
\* filter it returns its input.
C9_Subsequence ==
  filtered # None =>
    /\ filtered[1] =
         SelectSeq(fetched,
                   LAMBDA r : \A j \in DOMAIN computed_filters :
                                FilterPasses(r, computed_filters[j], rolls, batches))
    /\ (computed_filters = <<>> => filtered[1] = fetched)

\* two filters applied to two records of which exactly the second is kept
C9_Witness ==
  /\ filtered # None
  /\ Len(computed_filters) = 2
  /\ Len(fetched) = 2
  /\ filtered[1] = <<fetched[2]>>

RemoveAt(seq, i) == SubSeq(seq, 1, i - 1) \o SubSeq(seq, i + 1, Len(seq))

\* a field token whose value cannot be parsed for date, stars, push or pull
C10_UnparsableStored(t) ==
  \/ t.field = Some(k_date) /\ _build_date_filter(t.operator, t.value) = None
  \/ t.field = Some(k_stars) /\ ParseInt(t.value) = None
  \/ t.field \in {Some(k_push), Some(k_pull)}
       /\ ParseFloat(SelectSeq(t.value, LAMBDA c : c # "+")) = None

\* a cost token whose value is not numeric
C10_UnparsableCost(t) == t.field = Some(k_cost) /\ ParseFloat(t.value) = None

\* the response equals that of the search on the tokens without the i-th
C10_NoOp(i) ==
  LET other == SearchTokens(RemoveAt(tokens, i), rolls, batches)
  IN /\ response[1].rolls = other.rolls
     /\ response[1].total = other.total

\* C10 as stated: a field token whose value cannot be parsed for its field
\* (date, stars, push, pull or cost) is a no-op: the result is that of the
\* query without the token.
C10_UnparsableIsNoOp ==
  SearchMode =>
    \A i \in DOMAIN tokens :
      (C10_UnparsableStored(tokens[i]) \/ C10_UnparsableCost(tokens[i])) => C10_NoOp(i)

\* C10 amended: a date, stars, push or pull token whose value cannot be
\* parsed is a no-op; a cost token whose value is not numeric excludes
\* every roll.
C10_UnparsableStoredIsNoOp ==
  SearchMode =>
    \A i \in DOMAIN tokens :
      /\ C10_UnparsableStored(tokens[i]) => C10_NoOp(i)
      /\ C10_UnparsableCost(tokens[i]) => response[1].rolls = <<>> /\ response[1].total = 0

\* a search with an unparsable stars token and a second token that selects
\* some but not all rolls
C10_Witness ==
  /\ SearchMode
  /\ Len(tokens) = 2
  /\ \E i \in DOMAIN tokens :
       tokens[i].field = Some(k_stars) /\ C10_UnparsableStored(tokens[i])
  /\ Len(response[1].rolls) >= 1
  /\ Len(response[1].rolls) < Len(rolls)

(***************************************************************************)
(* Properties of error handling.                                           *)
(***************************************************************************)
\* C11: whatever the query, as long as the store does not fail, no
\* exception leaves build_filters or apply_computed_filters and the search
\* is answered 200.
C11_NeverRaises ==
  (SearchMode /\ fault = None) =>
    /\ BuildFailure(tokens, 1, <<>>, None) = None
    /\ ApplyFailure(fetched, 1, computed_filters, rolls, batches) = None
    /\ response[1].status_code = 200

\* a search with a date that int() rejects and a cost that float() rejects,
\* on a store where a roll has a total cost to compare
C11_Witness ==
  /\ SearchMode
  /\ fault = None
  /\ \E i \in DOMAIN tokens :
       tokens[i].field = Some(k_date) /\ DateTryError(tokens[i].value) # None
  /\ \E j \in DOMAIN computed_filters, k \in DOMAIN rolls :
       FilterTryError(rolls[k], computed_filters[j], rolls, batches) # None
  /\ response[1].status_code = 200

(***************************************************************************)
(* Properties of the fields with a builder of their own, checked under     *)
(* SpecFields.                                                             *)
(***************************************************************************)
\* the positions of the stored rolls a list of store filters selects
SelectedRolls(filters) == {k \in DOMAIN rolls : Selected(rolls[k], filters)}

\* a search of the single word mine:V, answered without a store failure
MineSearch ==
  /\ SearchMode
  /\ fault = None
  /\ Len(tokens) = 1
  /\ tokens[1].field = Some(k_mine)

\* C12: the filter compiled for mine:V selects the rolls whose not_mine flag
\* is the negation of the boolean reading of V, so that mine:V and
\* not_mine:V select complementary sets of rolls.
C12_MineInverted ==
  MineSearch =>
    /\ SelectedRolls(sql_filters) =
         {k \in DOMAIN rolls : rolls[k].not_mine = ~(Lower(tokens[1].value) \in TruthyValues)}
    /\ SelectedRolls(sql_filters) =
         DOMAIN rolls \ SelectedRolls(build_filters(parse(k_not_mine \o <<":">> \o tokens[1].value),
                                                    batches).sql)

\* text t contains v as a substring
Contains(t, v) == \E i \in 0..(Len(t) - Len(v)) : SubSeq(t, i + 1, i + Len(v)) = v

\* the stored batches whose name contains v, case-insensitively
BatchesNamed(v) == {k \in DOMAIN batches : Contains(Lower(batches[k].name), Lower(v))}

\* a search whose first word is chemistry:V, answered without a store
\* failure: its filter is the first store filter
ChemistrySearch ==
  /\ SearchMode
  /\ fault = None
  /\ tokens # <<>>
  /\ tokens[1].field = Some(k_chemistry)

\* C13: whatever its operator, the filter compiled for chemistry:V selects
\* exactly the rolls whose chemistry_id is the id of a batch whose name
\* contains V case-insensitively; when no batch name contains V it selects
\* no roll and nothing is raised.
C13_ChemistryByName ==
  ChemistrySearch =>
    /\ SelectedRolls(<<sql_filters[1]>>) =
         {k \in DOMAIN rolls :
            /\ rolls[k].chemistry_id # None
            /\ \E b \in BatchesNamed(tokens[1].value) :
                 batches[b].id = rolls[k].chemistry_id[1]}
    /\ BatchesNamed(tokens[1].value) = {} => SelectedRolls(<<sql_filters[1]>>) = {}
    /\ response[1].status_code = 200

\* a search during which the store fails: the faulty call is one the
\* request makes (the lookup is made only for a chemistry token)
FaultHit ==
  /\ SearchMode
  /\ fault # None
  /\ fault[1].at = "lookup" => \E i \in DOMAIN tokens : tokens[i].field = Some(k_chemistry)

\* C14: when the store fails in the chemistry-name lookup or in the
\* execution of the compiled query, the failing call is the last store call
\* of the request and is made once (nothing is caught or retried), and the
\* request ends in one 400 response carrying the message of the failure,
\* never in a result.
C14_StoreFailureIs400 ==
  FaultHit =>
    /\ calls # <<>>
    /\ calls[Len(calls)] = fault[1].at
    /\ Cardinality({k \in DOMAIN calls : calls[k] = fault[1].at}) = 1
    /\ response = Some([status_code |-> 400,
                        detail |-> <<"Invalid search query: ", fault[1].message>>])

\* the execution of a query with two chemistry words fails in all(), after
\* two lookups and the count
C14_Witness ==
  /\ FaultHit
  /\ fault[1].at = "all"
  /\ calls = <<"lookup", "lookup", "count", "all">>
  /\ rolls # <<>>
  /\ response[1].status_code = 400

(***************************************************************************)
(* Properties of the development chart.                                    *)
(***************************************************************************)
\* the request in hand is a call of this handler of api/dev_chart.py
ChartRequest(op) == request # None /\ request[1].op = op

\* the rows stored before the request in hand that have the five fields of
\* its body: a row created by the request has the last id given
EntriesWithKeyOfBody ==
  {i \in DOMAIN chart :
     /\ chart[i].id # ChartId(minted.development_chart)
     /\ ChartKey(chart[i]) = ChartKey(request[1].entry_data)}

\* C15: no two stored entries share the five key fields, and a create
\* request whose key is that of an existing entry is answered 409 and
\* stores nothing.
C15_UniqueKey ==
  /\ \A i, j \in DOMAIN chart : i # j => ChartKey(chart[i]) # ChartKey(chart[j])
  /\ (ChartRequest("create_dev_chart_entry") /\ EntriesWithKeyOfBody # {}) =>
       /\ response[1].status_code = 409
       /\ \A i \in DOMAIN chart : chart[i].id # ChartId(minted.development_chart)

\* the stored entries that equal the query of the request in hand on
\* film_stock, developer and iso_rating, and on dilution_ratio and
\* temperature_celsius where the query is to be compared on them
EntriesEqual(on_dilution, on_temperature) ==
  {i \in DOMAIN chart :
     /\ chart[i].film_stock = Some(request[1].query.film_stock)
     /\ chart[i].developer = Some(request[1].query.developer)
     /\ chart[i].iso_rating = Some(request[1].query.iso_rating)
     /\ on_dilution => chart[i].dilution_ratio = request[1].query.dilution_ratio
     /\ on_temperature =>
          chart[i].temperature_celsius = request[1].query.temperature_celsius}

\* the stored entries with the film_stock and developer of the query
EntriesSharing ==
  {i \in DOMAIN chart :
     /\ chart[i].film_stock = Some(request[1].query.film_stock)
     /\ chart[i].developer = Some(request[1].query.developer)}

\* the answer of lookup_dev_time, given the entries that count as matches
LookupAnswer(matching, suggestions) ==
  IF matching # {}
  THEN /\ response[1].body.found
       /\ response[1].body.entry # None
       /\ \E i \in matching : chart[i] = response[1].body.entry[1]
       /\ suggestions = None
  ELSE /\ ~response[1].body.found
       /\ response[1].body.entry = None
       /\ IF EntriesSharing = {} THEN suggestions = None
          ELSE /\ suggestions # None
               /\ Len(suggestions[1]) \in 1..5
               /\ \A k \in DOMAIN suggestions[1] :
                    \E i \in EntriesSharing : chart[i] = suggestions[1][k]

\* C16 as stated: the query is compared on each of dilution_ratio and
\* temperature_celsius that it provides (that is not null).
C16_LookupProvided ==
  ChartRequest("lookup_dev_time") =>
    LookupAnswer(EntriesEqual(request[1].query.dilution_ratio # None,
                              request[1].query.temperature_celsius # None),
                 response[1].body.suggestions)

\* C16, amended: lookup_dev_time returns found=true with a matching entry
\* and no suggestions iff some stored entry equals the query on film_stock,
\* developer and iso_rating, on dilution_ratio when the query provides a
\* non-empty one, and on temperature_celsius when the query provides it;
\* otherwise found=false with entry null, and suggestions is null when no
\* stored entry shares the query's film_stock and developer, else a
\* non-empty list of at most 5 entries that all share them.
C16_LookupNonEmpty ==
  ChartRequest("lookup_dev_time") =>
    LookupAnswer(EntriesEqual(request[1].query.dilution_ratio \notin {None, Some(<<>>)},
                              request[1].query.temperature_celsius # None),
                 response[1].body.suggestions)

\* a lookup without a match on a chart with six entries of the film and
\* developer asked for: five of them are suggested
C16_Witness ==
  /\ ChartRequest("lookup_dev_time")
  /\ Cardinality(EntriesSharing) = 6
  /\ ~response[1].body.found
  /\ Len(response[1].body.suggestions[1]) = 5

(***************************************************************************)
(* Properties of the PUT handlers, over the steps of SpecUpdate that       *)
(* handle an update request.                                               *)
(***************************************************************************)
UpdateOps == {"update_film_roll", "update_chemistry_batch", "update_dev_chart_entry"}

\* the table an update request addresses, out of the three given
TableOf(op, rs, bs, es) ==
  CASE op = "update_film_roll" -> rs
    [] op = "update_chemistry_batch" -> bs
    [] op = "update_dev_chart_entry" -> es

\* the columns of that table whose values a row holds without Some
PlainOf(op) ==
  CASE op = "update_film_roll" -> RollRequired
    [] op = "update_chemistry_batch" -> BatchRequired
    [] op = "update_dev_chart_entry" -> {}

\* the row holds in column f the value the body gives for it
HoldsBodyValue(row, data, plain, f) ==
  IF f \in plain THEN data[f] # None /\ row[f] = data[f][1] ELSE row[f] = data[f]

\* the row new has the values of the body in the fields the body names
\* and those of old in every other field; updated_at is left to the caller
\* when stamped is TRUE
BodyApplied(old, new, data, plain, stamped) ==
  \A f \in DOMAIN old :
    IF f \in DOMAIN data THEN HoldsBodyValue(new, data, plain, f)
    ELSE IF f = "updated_at" /\ stamped THEN TRUE
    ELSE new[f] = old[f]

\* every row but the one at position i is what it was
OthersKept(old, new, i) ==
  /\ Len(new) = Len(old)
  /\ \A k \in DOMAIN old : k # i => new[k] = old[k]

\* the two tables the request does not address are what they were
OtherTablesKept(op) ==
  /\ op # "update_film_roll" => rolls' = rolls
  /\ op # "update_chemistry_batch" => batches' = batches
  /\ op # "update_dev_chart_entry" => chart' = chart

\* the step handles a PUT request
UpdateHandled ==
  /\ request = None
  /\ request' # None
  /\ request'[1].op \in UpdateOps

\* the statement of C17 about one step: old and new are the table
\* addressed before and after it
ExactlyBody(req, res, old, new) ==
  IF RowIndex(old, req.id) = 0
  THEN res.status_code = 404 /\ new = old
  ELSE /\ OthersKept(old, new, RowIndex(old, req.id))
       /\ BodyApplied(old[RowIndex(old, req.id)], new[RowIndex(old, req.id)],
                      req.data, PlainOf(req.op), FALSE)

\* the amended statement about one step
ExactlyBodyWhenOk(req, res, old, new) ==
  /\ RowIndex(old, req.id) = 0 => res.status_code = 404
  /\ res.status_code # 200 => new = old
  /\ res.status_code = 200 =>
       /\ OthersKept(old, new, RowIndex(old, req.id))
       /\ BodyApplied(old[RowIndex(old, req.id)], new[RowIndex(old, req.id)],
                      req.data, PlainOf(req.op), TRUE)
       /\ new[RowIndex(old, req.id)].updated_at =
            IF BodyApplied(old[RowIndex(old, req.id)], old[RowIndex(old, req.id)],
                           req.data, PlainOf(req.op), TRUE)
            THEN old[RowIndex(old, req.id)].updated_at
            ELSE old[RowIndex(old, req.id)].updated_at + 1

\* C17 as stated: a PUT update changes exactly the fields present in the
\* request body and leaves every other stored field of that record, and
\* every other record, unchanged; an update addressed to an id that does
\* not exist returns 404 and changes nothing.
C17_ExactlyBody ==
  [][UpdateHandled =>
       /\ OtherTablesKept(request'[1].op)
       /\ ExactlyBody(request'[1], response'[1],
                      TableOf(request'[1].op, rolls, batches, chart),
                      TableOf(request'[1].op, rolls', batches', chart'))]_vars

\* C17, amended: a PUT update of a film roll, chemistry batch or
\* development-chart entry that is answered 200 changes exactly the fields
\* present in the request body, and updated_at when one of them gets a new
\* value, and leaves every other stored field of that record, and every
\* other record, unchanged; an update that is not answered 200 changes
\* nothing; an update addressed to an id that does not exist returns 404.
C17_ExactlyBodyWhenOk ==
  [][UpdateHandled =>
       /\ OtherTablesKept(request'[1].op)
       /\ ExactlyBodyWhenOk(request'[1], response'[1],
                            TableOf(request'[1].op, rolls, batches, chart),
                            TableOf(request'[1].op, rolls', batches', chart'))]_vars

\* an update answered 200 that has given a field of one of two rows a new
\* value
C17_Witness ==
  /\ request # None
  /\ request[1].op \in UpdateOps
  /\ response[1].status_code = 200
  /\ DOMAIN request[1].data # {}
  /\ Len(TableOf(request[1].op, rolls, batches, chart)) = 2
  /\ response[1].body.updated_at = 1
  /\ \E i \in {1, 2} : TableOf(request[1].op, rolls, batches, chart)[i] = response[1].body

(***************************************************************************)
(* Properties of the status and the costs of a roll, over SpecStore.       *)
(***************************************************************************)
\* the step handles a request of the kind op
StoreHandled(op) ==
  /\ request = None
  /\ request' # None
  /\ request'[1].op = op

\* C18: after assign_chemistry succeeds on a roll whose status is EXPOSED,
\* whether the request assigns an existing chemistry_id or a lab_dev_cost,
\* the roll's derived status is DEVELOPED.
C18_AssignDevelops ==
  [][(/\ StoreHandled("assign_chemistry")
      /\ response'[1].status_code = 200
      /\ Status(rolls[RowIndex(rolls, request'[1].id)]) = s_EXPOSED)
       => Status(rolls'[RowIndex(rolls, request'[1].id)]) = s_DEVELOPED]_vars

\* the statuses that the presence of its fields gives a roll, by the
\* precedence stars, chemistry_id, date_unloaded, date_loaded
StatusesByPresence(roll) ==
  {st \in {s_NEW, s_LOADED, s_EXPOSED, s_DEVELOPED, s_SCANNED} :
     \/ st = s_SCANNED /\ roll.stars # None
     \/ st = s_DEVELOPED /\ roll.stars = None /\ roll.chemistry_id # None
     \/ st = s_EXPOSED /\ roll.stars = None /\ roll.chemistry_id = None
          /\ roll.date_unloaded # None
     \/ st = s_LOADED /\ roll.stars = None /\ roll.chemistry_id = None
          /\ roll.date_unloaded = None /\ roll.date_loaded # None
     \/ st = s_NEW /\ roll.stars = None /\ roll.chemistry_id = None
          /\ roll.date_unloaded = None /\ roll.date_loaded = None}

\* what the claim says each status implies
StatusImplies(roll, st) ==
  /\ st = s_LOADED => roll.date_loaded # None /\ roll.date_unloaded = None
  /\ st = s_EXPOSED => roll.date_unloaded # None /\ roll.chemistry_id = None
  /\ st = s_DEVELOPED => roll.chemistry_id # None /\ roll.stars = None
  /\ st = s_NEW => /\ roll.date_loaded = None /\ roll.date_unloaded = None
                   /\ roll.chemistry_id = None /\ roll.stars = None

\* C19: in every reachable store state each roll has exactly one status,
\* fixed by field presence with the precedence SCANNED if stars is set,
\* else DEVELOPED if chemistry_id is set, else EXPOSED if date_unloaded is
\* set, else LOADED if date_loaded is set, else NEW; hence LOADED implies
\* date_loaded set and date_unloaded unset, EXPOSED implies date_unloaded
\* set and chemistry_id unset, DEVELOPED implies chemistry_id set and stars
\* unset, and NEW implies no dates, no chemistry and no stars.
C19_StatusByPresence ==
  \A i \in DOMAIN rolls :
    /\ StatusesByPresence(rolls[i]) = {Status(rolls[i])}
    /\ StatusImplies(rolls[i], Status(rolls[i]))

\* a rated roll that has a batch and both dates, next to a roll that has
\* been unloaded and not developed
C19_Witness ==
  /\ \E i \in DOMAIN rolls :
       /\ rolls[i].stars # None
       /\ rolls[i].chemistry_id # None
       /\ rolls[i].date_unloaded # None
       /\ rolls[i].date_loaded # None
  /\ \E i \in DOMAIN rolls : Status(rolls[i]) = s_EXPOSED

\* the batch a roll references: its position in batches, 0 without one
BatchOf(roll) ==
  IF roll.chemistry_id = None THEN 0 ELSE RowIndex(batches, roll.chemistry_id[1])

\* rolls referencing the batch at position b, plus its rolls_offset
Developed(b) ==
  Cardinality({k \in DOMAIN rolls : BatchOf(rolls[k]) = b}) + batches[b].rolls_offset

\* the cents the batch at position b has cost
CentsOf(b) ==
  batches[b].developer_cost + batches[b].fixer_cost + batches[b].other_cost

\* total, in currency units, is cents / (100 * count), plus film cents / 100
\* when with_film
IsCostPerRoll(total, cents, count, film, with_film) ==
  /\ total # None
  /\ total[1].d # 0
  /\ total[1].n * 100 * count =
       total[1].d * (cents + (IF with_film THEN film * count ELSE 0))

\* C20: a roll's total_cost is null exactly when the roll has no chemistry
\* batch or its batch's rolls_developed (rolls referencing the batch plus
\* rolls_offset) is 0; otherwise it equals the batch's cost per roll (batch
\* cost divided by rolls_developed) for a not_mine roll, and film_cost plus
\* that cost per roll for every other roll.
C20_TotalCost ==
  \A i \in DOMAIN rolls :
    IF BatchOf(rolls[i]) = 0 THEN TotalCost(rolls[i], rolls, batches) = None
    ELSE IF Developed(BatchOf(rolls[i])) = 0
         THEN TotalCost(rolls[i], rolls, batches) = None
         ELSE IsCostPerRoll(TotalCost(rolls[i], rolls, batches),
                            CentsOf(BatchOf(rolls[i])), Developed(BatchOf(rolls[i])),
                            rolls[i].film_cost, ~rolls[i].not_mine)

\* a roll of the user and a roll of a friend developed in a batch whose
\* rolls_offset takes one off the count: both have a total cost
C20_Witness ==
  \E i, j \in DOMAIN rolls :
    /\ ~rolls[i].not_mine
    /\ rolls[j].not_mine
    /\ BatchOf(rolls[i]) # 0
    /\ BatchOf(rolls[j]) = BatchOf(rolls[i])
    /\ batches[BatchOf(rolls[i])].rolls_offset = 0 - 1
    /\ TotalCost(rolls[i], rolls, batches) # None
    /\ TotalCost(rolls[j], rolls, batches) # None

(***************************************************************************)
(* Specification SpecCompile: the first two calls of the search branch of  *)
(* list_film_rolls, parser.parse(search) and parser.build_filters(tokens), *)
(* on one-word queries for the fields date, push, pull, format, stock,     *)
(* order and stars.                                                        *)
(***************************************************************************)
\* values of date tokens: years, months and days that exist and that do
\* not, and values of other lengths
DateValues ==
  { <<"2","0","2","4">>, <<"0","0","0","0">>, <<"2","0","x","4">>, <<"+","2","0","2">>,
    <<"2","0","2","4","-","0","2">>, <<"2","0","2","3","-","0","2">>, <<"2","0","2","4","-","1","2">>, <<"2","0","2","4","-","1","3">>,
    <<"2","0","2","4","-","1","x">>, <<"1","-","2","-","3","-","4">>, <<"2","0","2","4","-","0","2","-","2","9">>, <<"2","0","2","3","-","0","2","-","2","9">>,
    <<"2","0","2","4","-","0","6","-","1","5">>, <<"2","0","2","4","/","0","6","/","1","5">>, <<"2","0","2","4","0","6","1","5">>, <<"2","4">>,
    <<"2","0","2","4","-","6">> }

\* values of push and pull tokens
StopValues ==
  { <<"1">>, <<"-","1">>, <<"+","1">>, <<"1","+","1">>, <<"1","+">>, <<"x">>, <<"1",".","5">>, <<"+">> }

\* what a word has between the colon and the value
OperatorTexts == {<<>>, op_eq, op_gt, op_lt, op_ge, op_le}

\* words for the standard fields, two of them with a LIKE wildcard
StandardWords ==
  { <<"f","o","r","m","a","t",":","1","2","0">>, <<"f","o","r","m","a","t",":","=","3","5","M","M">>, <<"f","o","r","m","a","t",":",">","1","2","0">>,
    <<"s","t","o","c","k",":","h","p","5">>, <<"o","r","d","e","r",":","1">>, <<"s","t","a","r","s",":","4">>,
    <<"s","t","a","r","s",":",">","=","4">>, <<"s","t","a","r","s",":","4",".","5">>, <<"s","t","a","r","s",":","x">>,
    <<"s","t","a","r","s",":","+","4">>,
    <<"f","o","r","m","a","t",":","1","_","0">>, <<"s","t","o","c","k",":","h","%","5">> }

CompileQueries ==
  {k_date \o <<":">> \o o \o v : o \in OperatorTexts, v \in DateValues}
    \cup {f \o <<":">> \o o \o v : f \in {k_push, k_pull}, o \in {<<>>, op_gt, op_le},
                                   v \in StopValues}
    \cup StandardWords

CompileInit ==
  /\ query \in CompileQueries
  /\ parts = <<>>
  /\ idx = 0
  /\ tokens = <<>>
  /\ phase = "start"
  /\ rolls = <<>>
  /\ batches = <<>>
  /\ request = None
  /\ sql_filters = <<>>
  /\ computed_filters = <<>>
  /\ fetched = <<>>
  /\ filtered = None
  /\ response = None
  /\ fault = None
  /\ calls = <<>>
  /\ local_total = 0
  /\ chart = <<>>
  /\ minted = [development_chart |-> 0, film_rolls |-> 0, chemistry_batches |-> 0]

\* list_film_rolls, line 63: tokens = parser.parse(search)
CompileParse ==
  /\ phase = "start"
  /\ tokens' = parse(query)
  /\ phase' = "parsed"
  /\ UNCHANGED <<query, parts, idx, storeVars, searchVars>>

\* list_film_rolls, line 66: sql_filters, computed_filters =
\* parser.build_filters(tokens)
CompileBuild ==
  /\ phase = "parsed"
  /\ \E out \in {build_filters(tokens, batches)} :
       /\ sql_filters' = out.sql
       /\ computed_filters' = out.computed
  /\ phase' = "built"
  /\ UNCHANGED <<query, parts, idx, tokens, storeVars, request, fetched, filtered,
                 response, fault, calls, local_total>>

CompileNext == CompileParse \/ CompileBuild

SpecCompile == CompileInit /\ [][CompileNext]_vars

(***************************************************************************)
(* Properties of the filter compiler, over the states of SpecCompile in    *)
(* which build_filters has returned.  A store filter is judged by the      *)
(* rows it selects: EvalFilter on a row that has the column compared.      *)
(***************************************************************************)
\* build_filters has returned for a query of one token of this field
Compiled(fields) ==
  /\ phase = "built"
  /\ Len(tokens) = 1
  /\ tokens[1].field # None
  /\ tokens[1].field[1] \in fields

\* calendar days around the ends of the years and months asked for
SampleDates ==
  { 20231231, 20240101, 20240131, 20240201, 20240229, 20240301, 20240615,
    20241130, 20241201, 20241231, 20250101, 20230131, 20230201, 20230228,
    20230301, 2020101, 2021231 }

\* the filter selects the row
Selects(f, row) == EvalFilter(f, row) = "T"

\* f is an inclusive range on date_loaded
IsDateRange(f) ==
  /\ f.kind = "and"
  /\ Len(f.args) = 2
  /\ \A k \in {1, 2} : f.args[k].kind = "cmp" /\ f.args[k].col = "date_loaded"
  /\ f.args[1].op = op_ge
  /\ f.args[2].op = op_le

\* the only store filter is an inclusive range that selects exactly the
\* sample days whose year and month, or year, is ym
RangeCovering(ym, per) ==
  /\ Len(sql_filters) = 1
  /\ IsDateRange(sql_filters[1])
  /\ \A d \in SampleDates :
       Selects(sql_filters[1], [date_loaded |-> Some(d)]) <=> (d \div per = ym)
  /\ ~Selects(sql_filters[1], [date_loaded |-> None])

\* the only store filter compares date_loaded with day by the operator
DayCompared(operator, day) ==
  /\ Len(sql_filters) = 1
  /\ sql_filters[1].kind = "cmp"
  /\ sql_filters[1].col = "date_loaded"
  /\ \A d \in SampleDates :
       Selects(sql_filters[1], [date_loaded |-> Some(d)]) <=>
         CASE operator = op_eq -> d = day
           [] operator = op_gt -> d > day
           [] operator = op_lt -> d < day
           [] operator = op_ge -> d >= day
           [] operator = op_le -> d <= day

\* what the claim says of a date token with this operator and value: year
\* is int(value), ym the integers on the two sides of the dash, day the
\* date the value names, each None when the value names none
DateCompiled(operator, value, year, ym, day) ==
  CASE Len(value) = 4 ->
         IF year # None /\ year[1] \in 1..9999
         THEN RangeCovering(year[1], 10000)
         ELSE sql_filters = <<>>
    [] Len(value) = 7 ->
         IF ym # None /\ ym[1][1] \in 1..9999 /\ ym[1][2] \in 1..12
         THEN RangeCovering(ym[1][1] * 100 + ym[1][2], 100)
         ELSE sql_filters = <<>>
    [] Len(value) = 10 ->
         IF day # None THEN DayCompared(operator, day[1]) ELSE sql_filters = <<>>
    [] OTHER -> sql_filters = <<>>

\* C21: for a date token, a 4-character year or a 7-character YYYY-MM value
\* compiles to an inclusive range on date_loaded covering exactly that
\* calendar year or month (first day to last day) whatever the token's
\* operator; a 10-character YYYY-MM-DD value compiles to the token's own
\* comparison operator against date_loaded; any other length or an invalid
\* date yields no filter.
C21_DateGranularity ==
  Compiled({k_date}) =>
    /\ computed_filters = <<>>
    /\ DateCompiled(tokens[1].operator, tokens[1].value, ParseInt(tokens[1].value),
                    YearMonth(tokens[1].value), FromIsoFormat(tokens[1].value))

\* the month of a leap-year February asked for with '>': a range
C21_Witness ==
  /\ Compiled({k_date})
  /\ tokens[1].operator = op_gt
  /\ tokens[1].value = <<"2","0","2","4","-","0","2">>
  /\ Len(sql_filters) = 1
  /\ Selects(sql_filters[1], [date_loaded |-> Some(20240229)])

\* the number a push or pull value stands for: float() of the value
\* without a leading '+', None when that is not numeric
StopsOf(value) ==
  IF value # <<>> /\ value[1] = "+" THEN ParseFloat(Tail(value)) ELSE ParseFloat(value)

\* the only store filter compares push_pull_stops with number by the
\* operator
StopsCompared(operator, number) ==
  /\ Len(sql_filters) = 1
  /\ sql_filters[1].kind = "cmp"
  /\ sql_filters[1].col = "push_pull_stops"
  /\ sql_filters[1].op = operator
  /\ RatEq(sql_filters[1].val, number)

\* what the claim says of a push or pull token, stops being the number its
\* value stands for
StopsCompiled(field, operator, stops) ==
  IF stops = None THEN sql_filters = <<>>
  ELSE StopsCompared(operator,
                     IF field = k_pull THEN Rat(0 - Abs(stops[1].n), stops[1].d)
                     ELSE stops[1])

\* C22: for push and pull tokens the value is parsed as a number after
\* stripping only a leading '+'; for pull the compared number is forced
\* negative regardless of the input sign, so pull:1 and pull:-1 compile to
\* the same filter; a value that is not numeric, including one with a '+'
\* anywhere other than at the front, yields no filter.
C22_StopsParsed ==
  Compiled({k_push, k_pull}) =>
    /\ computed_filters = <<>>
    /\ StopsCompiled(tokens[1].field[1], tokens[1].operator, StopsOf(tokens[1].value))

\* values of a text column, and of stars
SampleTexts ==
  { <<"1","2","0">>, <<"6","x","1","2","0">>, <<"1","1","0">>, <<"3","5","m","m">>,
    <<"H","P","5">>, <<"I","l","f","o","r","d"," ","h","p","5">>, <<"H","P","4","5">>,
    <<"1">>, <<"2">> }

SampleStars == {None, Some(3), Some(4), Some(5)}

\* a row with this text in the three text columns of the standard fields
TextRow(text) == [film_format |-> text, film_stock_name |-> text, order_id |-> text]

\* C25: for the standard text fields (format, stock, order) the operator
\* '=' compiles to a case-insensitive substring match, so format:120 also
\* selects a roll whose film_format merely contains '120'; for the integer
\* field stars the operator '=' compiles to exact equality with the value
\* coerced to an integer.
C25_EqualsOnTextAndStars ==
  /\ (Compiled({k_format, k_stock, k_order}) /\ tokens[1].operator = op_eq) =>
       /\ Len(sql_filters) = 1
       /\ \A text \in SampleTexts :
            Selects(sql_filters[1], TextRow(text)) <=>
              Contains(Lower(text), Lower(tokens[1].value))
  /\ (Compiled({k_stars}) /\ tokens[1].operator = op_eq
        /\ ParseInt(tokens[1].value) # None) =>
       /\ Len(sql_filters) = 1
       /\ \A stars \in SampleStars :
            Selects(sql_filters[1], [stars |-> stars]) <=>
              (stars = ParseInt(tokens[1].value))

(***************************************************************************)
(* Properties of the computed filters status and total_cost, over the      *)
(* states of SpecApply in which apply_computed_filters has returned.       *)
(***************************************************************************)
\* the computed filters of the call that are on this field
FiltersOn(name) == {j \in DOMAIN computed_filters : computed_filters[j][1] = name}

\* the comparison of two amounts by an operator, '=' within a cent
AmountHolds(a, operator, b) ==
  CASE operator = op_eq ->
         /\ 100 * (a.n * b.d - b.n * a.d) < a.d * b.d
         /\ 100 * (b.n * a.d - a.n * b.d) < a.d * b.d
    [] operator = op_gt -> a.n * b.d > b.n * a.d
    [] operator = op_lt -> a.n * b.d < b.n * a.d
    [] operator = op_ge -> a.n * b.d >= b.n * a.d
    [] operator = op_le -> a.n * b.d <= b.n * a.d

\* the record has a total cost, the target is a number and the comparison
\* of the two holds
CostHolds(total, operator, target) ==
  /\ total # None
  /\ target # None
  /\ AmountHolds(total[1], operator, target[1])

\* C23: for a total_cost computed filter a record is retained only if its
\* total_cost is non-null, the target value parses as a number and the
\* comparison holds; hence a target value that does not parse excludes every
\* record, and a roll with no development cost matches no cost filter
\* whatever the operator.
C23_CostFilter ==
  filtered # None =>
    /\ \A k \in DOMAIN filtered[1], j \in FiltersOn("total_cost") :
         CostHolds(TotalCost(filtered[1][k], rolls, batches), computed_filters[j][2],
                   ParseFloat(computed_filters[j][3]))
    /\ (\E j \in FiltersOn("total_cost") : ParseFloat(computed_filters[j][3]) = None)
         => filtered[1] = <<>>
    /\ FiltersOn("total_cost") # {} =>
         \A i \in DOMAIN fetched :
           DevCost(fetched[i], rolls, batches) = None =>
             \A k \in DOMAIN filtered[1] : filtered[1][k] # fetched[i]

\* one cost filter with a numeric target on a roll without development cost
\* and a roll that costs more than the target: the second is retained
C23_Witness ==
  /\ filtered # None
  /\ Len(computed_filters) = 1
  /\ computed_filters[1][1] = "total_cost"
  /\ ParseFloat(computed_filters[1][3]) # None
  /\ Len(fetched) = 2
  /\ DevCost(fetched[1], rolls, batches) = None
  /\ filtered[1] = <<fetched[2]>>

\* the record passes the status filter: '=' and its status is the target
\* but for case
StatusHolds(roll, operator, target) ==
  /\ operator = op_eq
  /\ Lower(Status(roll)) = Lower(target)

\* C24: for a status computed filter only the operator '=' can match: a
\* record is retained if and only if the operator is '=' and its derived
\* status equals the target value ignoring case; with any of >, <, >=, <=
\* no record is retained.
C24_StatusFilter ==
  filtered # None =>
    /\ \A k \in DOMAIN filtered[1], j \in FiltersOn("status") :
         StatusHolds(filtered[1][k], computed_filters[j][2], computed_filters[j][3])
    /\ (FiltersOn("status") = DOMAIN computed_filters /\ computed_filters # <<>>) =>
         filtered[1] =
           SelectSeq(fetched,
                     LAMBDA r : \A j \in DOMAIN computed_filters :
                                  StatusHolds(r, computed_filters[j][2],
                                              computed_filters[j][3]))
    /\ (\E j \in FiltersOn("status") : computed_filters[j][2] # op_eq)
         => filtered[1] = <<>>

\* status:loaded, in lower case, on a LOADED roll and a roll of another
\* status: the first is retained
C24_Witness ==
  /\ filtered # None
  /\ computed_filters = << <<"status", op_eq, <<"l","o","a","d","e","d">>>> >>
  /\ Len(fetched) = 2
  /\ Status(fetched[1]) = s_LOADED
  /\ filtered[1] = <<fetched[1]>>

(***************************************************************************)
(* Properties of the legacy mode of list_film_rolls, over Spec.            *)
(***************************************************************************)
\* a response to a request without a search string and with a status
\* parameter is in hand
LegacyStatusMode ==
  /\ request # None
  /\ ~TruthyStr(request[1].search)
  /\ TruthyStr(request[1].status)
  /\ response[1].status_code = 200

\* the stored rolls the request asks for: those with the status, and with
\* the order_id when the request gives one
LegacyWanted ==
  {k \in DOMAIN rolls :
     /\ Status(rolls[k]) = Upper(request[1].status[1])
     /\ TruthyStr(request[1].order_id) => rolls[k].order_id = request[1].order_id[1]}

\* C26: in legacy mode (no search string) with a status parameter, all
\* rolls matching the optional order_id are fetched and then filtered by
\* derived status in Python, so every stored roll with that status is in the
\* response whatever skip and limit are.
C26_LegacyStatusComplete ==
  LegacyStatusMode =>
    \A k \in LegacyWanted : \E j \in DOMAIN response[1].rolls : response[1].rolls[j] = rolls[k]

(***************************************************************************)
(* Creating rolls and batches and deleting batches, with the response of   *)
(* each request.  The id of a new row is a fresh uuid4 (generate_uuid):    *)
(* the n-th id given to the rows of a table.                               *)
(***************************************************************************)
\* FilmRoll(**roll_data.model_dump()) with the id given at flush
NewRoll(roll_data, n) ==
  [id |-> RollId(n + 1),
   order_id |-> roll_data.order_id,
   film_stock_name |-> roll_data.film_stock_name,
   film_format |-> roll_data.film_format,
   date_loaded |-> roll_data.date_loaded,
   date_unloaded |-> roll_data.date_unloaded,
   push_pull_stops |-> roll_data.push_pull_stops,
   chemistry_id |-> roll_data.chemistry_id,
   stars |-> roll_data.stars,
   film_cost |-> roll_data.film_cost,
   not_mine |-> roll_data.not_mine,
   notes |-> roll_data.notes,
   updated_at |-> 0]

\* create_film_roll: the batch is looked up when chemistry_id is truthy;
\* the INSERT of db.commit() fails on a chemistry_id that is the id of no
\* batch (PRAGMA foreign_keys=ON), the IntegrityError is not caught and the
\* framework answers 500
create_film_roll(roll_data, rs, bs, n) ==
  IF TruthyStr(roll_data.chemistry_id) /\ RowIndex(bs, roll_data.chemistry_id[1]) = 0
  THEN StoreResult(rs, bs, 404, ChemistryNotFound(roll_data.chemistry_id[1]))
  ELSE IF roll_data.chemistry_id # None /\ RowIndex(bs, roll_data.chemistry_id[1]) = 0
       THEN StoreResult(rs, bs, 500, <<"Internal Server Error">>)
       ELSE StoreResult(Append(rs, NewRoll(roll_data, n)), bs, 201, NewRoll(roll_data, n))

\* ChemistryBatch(**batch_data.model_dump()) with the id given at flush
NewBatch(batch_data, n) ==
  [id |-> BatchId(n + 1),
   name |-> batch_data.name,
   developer_cost |-> batch_data.developer_cost,
   fixer_cost |-> batch_data.fixer_cost,
   other_cost |-> batch_data.other_cost,
   rolls_offset |-> batch_data.rolls_offset,
   updated_at |-> 0]

\* create_chemistry_batch
create_chemistry_batch(batch_data, rs, bs, n) ==
  StoreResult(rs, Append(bs, NewBatch(batch_data, n)), 201, NewBatch(batch_data, n))

\* the rows but the one at position i
Without(rows, i) == [k \in 1..(Len(rows) - 1) |-> IF k < i THEN rows[k] ELSE rows[k + 1]]

\* the flush of db.delete(batch): the relationship ChemistryBatch.rolls has
\* no delete cascade and no passive_deletes, so the unit of work loads the
\* rolls of the batch and sets their chemistry_id to NULL (an UPDATE each)
\* before it deletes the batch
Orphaned(rs, batch_id) ==
  [k \in DOMAIN rs |->
     IF rs[k].chemistry_id = Some(batch_id)
     THEN [rs[k] EXCEPT !.chemistry_id = None, !.updated_at = @ + 1]
     ELSE rs[k]]

\* delete_chemistry_batch
delete_chemistry_batch(batch_id, rs, bs) ==
  IF RowIndex(bs, batch_id) = 0 THEN StoreResult(rs, bs, 404, <<"Chemistry batch not found">>)
  ELSE StoreResult(Orphaned(rs, batch_id), Without(bs, RowIndex(bs, batch_id)), 204, None)

(***************************************************************************)
(* Specification SpecRefs: the requests that write chemistry_id or the     *)
(* table of batches, in any order.                                         *)
(***************************************************************************)
\* ids given to batches
MaxMinted == 2

\* the chemistry_id of a request body: absent or null, the empty string,
\* the id of a batch created so far or an id never given
ChemistryIds ==
  {None, Some(<<>>)} \cup {Some(BatchId(k)) : k \in 1..(minted.chemistry_batches + 1)}

\* request bodies of POST /api/rolls but for chemistry_id: an EXPOSED roll
RefRolls == {r \in StoreRolls : r.date_unloaded # None}

\* roll_data with the chemistry_id of the body
WithChemistry(roll_data, chemistry_id) ==
  [f \in DOMAIN roll_data \cup {"chemistry_id"} |->
     IF f = "chemistry_id" THEN chemistry_id ELSE roll_data[f]]

\* the ids requests are addressed to
MintedRollIds == {RollId(k) : k \in 1..(minted.film_rolls + 1)}

MintedBatchIds == {BatchId(k) : k \in 1..(minted.chemistry_batches + 1)}

\* a request that writes rolls or batches has been handled, created rows
\* of each table having been given ids
RefsDone(req, out, new_rolls, new_batches) ==
  /\ request' = Some(req)
  /\ rolls' = out.rolls
  /\ batches' = out.batches
  /\ response' = Some(out.response)
  /\ minted' = [minted EXCEPT !.film_rolls = @ + new_rolls,
                              !.chemistry_batches = @ + new_batches]
  /\ UNCHANGED <<parseVars, chart, sql_filters, computed_filters, fetched,
                 filtered, fault, calls, local_total>>

\* POST /api/rolls
CreateRefRoll ==
  /\ request = None
  /\ minted.film_rolls < MaxRolls
  /\ \E roll_data \in RefRolls, chemistry_id \in ChemistryIds :
       \E out \in {create_film_roll(WithChemistry(roll_data, chemistry_id), rolls, batches,
                                    minted.film_rolls)} :
         RefsDone([op |-> "create_film_roll", id |-> None,
                   data |-> [chemistry_id |-> chemistry_id]],
                  out, IF out.response.status_code = 201 THEN 1 ELSE 0, 0)

\* PUT /api/rolls/{roll_id}
UpdateRefRoll ==
  /\ request = None
  /\ UpdatesSeen < MaxUpdates
  /\ \E roll_id \in MintedRollIds, chemistry_id \in ChemistryIds :
       RefsDone([op |-> "update_film_roll", id |-> Some(roll_id),
                 data |-> [chemistry_id |-> chemistry_id]],
                update_film_roll(roll_id, [f \in {"chemistry_id"} |-> chemistry_id],
                                 rolls, batches), 0, 0)

\* PATCH /api/rolls/{roll_id}/chemistry
AssignRefChemistry ==
  /\ request = None
  /\ UpdatesSeen < MaxUpdates
  /\ \E roll_id \in MintedRollIds, chemistry_id \in ChemistryIds,
        lab_dev_cost \in {None, Some(500)} :
       RefsDone([op |-> "assign_chemistry", id |-> Some(roll_id),
                 data |-> [chemistry_id |-> chemistry_id]],
                assign_chemistry(roll_id, [chemistry_id |-> chemistry_id,
                                           lab_dev_cost |-> lab_dev_cost],
                                 rolls, batches), 0, 0)

\* POST /api/chemistry
CreateRefBatch ==
  /\ request = None
  /\ minted.chemistry_batches < MaxMinted
  /\ \E batch_data \in BatchInputs :
       RefsDone([op |-> "create_chemistry_batch", id |-> None, data |-> [chemistry_id |-> None]],
                create_chemistry_batch(batch_data, rolls, batches, minted.chemistry_batches),
                0, 1)

\* PUT /api/chemistry/{batch_id}
UpdateRefBatch ==
  /\ request = None
  /\ UpdatesSeen < MaxUpdates
  /\ \E batch_id \in MintedBatchIds, batch_data \in BatchUpdateInputs :
       RefsDone([op |-> "update_chemistry_batch", id |-> Some(batch_id),
                 data |-> [chemistry_id |-> None]],
                update_chemistry_batch(batch_id, batch_data, rolls, batches), 0, 0)

\* DELETE /api/chemistry/{batch_id}
DeleteRefBatch ==
  /\ request = None
  /\ \E batch_id \in MintedBatchIds :
       RefsDone([op |-> "delete_chemistry_batch", id |-> Some(batch_id),
                 data |-> [chemistry_id |-> None]],
                delete_chemistry_batch(batch_id, rolls, batches), 0, 0)

RefsNext ==
  \/ CreateRefRoll \/ UpdateRefRoll \/ AssignRefChemistry
  \/ CreateRefBatch \/ UpdateRefBatch \/ DeleteRefBatch
  \/ ReturnResponse

SpecRefs == Init /\ [][RefsNext]_vars

(***************************************************************************)
(* Properties of the reference from rolls to batches, over SpecRefs.       *)
(***************************************************************************)
\* every roll's chemistry_id is null or the id of an existing batch
ReferencesExist ==
  \A i \in DOMAIN rolls :
    rolls[i].chemistry_id = None \/ RowIndex(batches, rolls[i].chemistry_id[1]) # 0

\* the step handles a request on rolls whose body names a chemistry_id that
\* is the id of no batch
NamesMissingBatch ==
  /\ request = None
  /\ request' # None
  /\ request'[1].op \in {"create_film_roll", "update_film_roll", "assign_chemistry"}
  /\ request'[1].data.chemistry_id # None
  /\ RowIndex(batches, request'[1].data.chemistry_id[1]) = 0

\* C27: after any sequence, and any interleaving, of roll
\* create/update/assign_chemistry requests and chemistry-batch
\* create/update/delete requests, every roll's chemistry_id is either null
\* or the id of an existing chemistry batch; a request that names a
\* chemistry_id that does not exist is answered 404 and changes nothing.
C27_ReferencesExist ==
  [][/\ ReferencesExist'
     /\ NamesMissingBatch =>
          /\ response'[1].status_code = 404
          /\ storeVars' = storeVars]_vars

(***************************************************************************)
(* Specification SpecStars: the three requests that set a roll's stars,    *)
(* with the validation of the request body that comes before the handler   *)
(* (api/schemas/film_roll.py, api/schemas/actions.py).  A body that fails  *)
(* validation is answered 422 and the handler is not called.               *)
(***************************************************************************)
\* FilmRollBase.stars and FilmRollUpdate.stars: Optional[int], ge=0, le=5
FilmRollStars(stars) == stars = None \/ (stars[1] >= 0 /\ stars[1] <= 5)

\* RateRollRequest.stars: int, required, ge=1, le=5
RateRollStars(stars) == stars # None /\ stars[1] >= 1 /\ stars[1] <= 5

\* the answer to a body the schema rejects
Unprocessable(rs, bs) == StoreResult(rs, bs, 422, <<"Unprocessable Entity">>)

\* the stars of a request body: absent or null, and integers in and around
\* the ranges of the schemas
StarsValues == {None, Some(0 - 1), Some(0), Some(1), Some(5), Some(6)}

\* roll_data with the stars of the body
WithStars(roll_data, stars) == [roll_data EXCEPT !.stars = stars]

\* POST /api/rolls
CreateStarsRoll ==
  /\ request = None
  /\ minted.film_rolls < MaxRolls
  /\ \E roll_data \in StoreRolls, stars \in StarsValues :
       \E out \in {IF FilmRollStars(stars)
                   THEN create_film_roll(WithChemistry(WithStars(roll_data, stars), None),
                                         rolls, batches, minted.film_rolls)
                   ELSE Unprocessable(rolls, batches)} :
         RefsDone([op |-> "create_film_roll", id |-> None, data |-> [stars |-> stars]],
                  out, IF out.response.status_code = 201 THEN 1 ELSE 0, 0)

\* PUT /api/rolls/{roll_id}
UpdateStarsRoll ==
  /\ request = None
  /\ UpdatesSeen < MaxUpdates
  /\ \E roll_id \in MintedRollIds, stars \in StarsValues :
       RefsDone([op |-> "update_film_roll", id |-> Some(roll_id), data |-> [stars |-> stars]],
                IF FilmRollStars(stars)
                THEN update_film_roll(roll_id, [f \in {"stars"} |-> stars], rolls, batches)
                ELSE Unprocessable(rolls, batches), 0, 0)

\* PATCH /api/rolls/{roll_id}/rating
RateStarsRoll ==
  /\ request = None
  /\ UpdatesSeen < MaxUpdates
  /\ \E roll_id \in MintedRollIds, stars \in StarsValues :
       RefsDone([op |-> "rate_roll", id |-> Some(roll_id), data |-> [stars |-> stars]],
                IF RateRollStars(stars)
                THEN rate_roll(roll_id, [stars |-> stars[1]], rolls, batches)
                ELSE Unprocessable(rolls, batches), 0, 0)

StarsNext ==
  \/ CreateStarsRoll \/ UpdateStarsRoll \/ RateStarsRoll
  \/ ReturnResponse

SpecStars == Init /\ [][StarsNext]_vars

(***************************************************************************)
(* Properties of stars, over SpecStars.                                    *)
(***************************************************************************)
\* C28: in every store state reachable through the API, each roll's stars
\* is either null or an integer from 1 to 5, whichever of create, update and
\* rate last set it.
C28_StarsOneToFive ==
  \A i \in DOMAIN rolls :
    rolls[i].stars = None \/ (rolls[i].stars[1] >= 1 /\ rolls[i].stars[1] <= 5)

(***************************************************************************)
(* Properties of the lifecycle of a roll, over SpecStore.                  *)
(***************************************************************************)
\* the four lifecycle actions
LifecycleOps == {"load_roll", "unload_roll", "assign_chemistry", "rate_roll"}

\* the place of a status in the order NEW < LOADED < EXPOSED < DEVELOPED <
\* SCANNED
StatusRank(st) ==
  CASE st = s_NEW -> 0
    [] st = s_LOADED -> 1
    [] st = s_EXPOSED -> 2
    [] st = s_DEVELOPED -> 3
    [] st = s_SCANNED -> 4

\* the step handles one of the four lifecycle actions
LifecycleHandled ==
  /\ request = None
  /\ request' # None
  /\ request'[1].op \in LifecycleOps

\* C29: under any sequence of the four lifecycle actions load, unload,
\* assign_chemistry and rate, a roll's status never moves backwards in the
\* order NEW < LOADED < EXPOSED < DEVELOPED < SCANNED, and a failed action
\* (404 or 400) leaves the roll's status and fields unchanged.
C29_StatusForward ==
  [][LifecycleHandled =>
       /\ Len(rolls') = Len(rolls)
       /\ \A i \in DOMAIN rolls :
            StatusRank(Status(rolls'[i])) >= StatusRank(Status(rolls[i]))
       /\ response'[1].status_code \in {404, 400} => rolls' = rolls]_vars

(***************************************************************************)
(* Specification SpecRace: one search request of GET /api/rolls, statement *)
(* by statement, while other requests create and delete rolls.  The        *)
(* handlers are plain functions, run by the framework in a pool of         *)
(* threads; each request has a session of its own (get_db) on the one      *)
(* SQLite database.  The driver opens no transaction for a SELECT, so      *)
(* count() (line 73) and all() (line 74) each read the rows committed when *)
(* they run, and the commit of another request may come between them.      *)
(***************************************************************************)
\* delete_film_roll
delete_film_roll(roll_id, rs, bs) ==
  IF RowIndex(rs, roll_id) = 0 THEN StoreResult(rs, bs, 404, <<"Film roll not found">>)
  ELSE StoreResult(Without(rs, RowIndex(rs, roll_id)), bs, 204, None)

\* the search strings of the request: a text word, a stored field and a
\* computed field
RaceQueries ==
  { <<"e","k">>, <<"f","o","r","m","a","t",":","1","2">>,
    <<"s","t","a","t","u","s",":","l","o","a","d","e","d">> }

\* list_film_rolls, lines 54-66: the request arrives, the search string is
\* parsed and compiled
RaceSearch ==
  /\ request = None
  /\ phase = "start"
  /\ \E q \in RaceQueries :
       \E out \in {build_filters(parse(q), batches)} :
         /\ request' = Some(Request(Some(q), 0, 100, None, None))
         /\ query' = q
         /\ tokens' = parse(q)
         /\ sql_filters' = out.sql
         /\ computed_filters' = out.computed
  /\ phase' = "built"
  /\ UNCHANGED <<storeVars, parts, idx, fetched, filtered, response, fault, calls,
                 local_total>>

\* list_film_rolls, line 73: total = query.count()
RaceCount ==
  /\ phase = "built"
  /\ local_total' = QueryCount(rolls, sql_filters)
  /\ calls' = Append(calls, "count")
  /\ phase' = "counted"
  /\ UNCHANGED <<storeVars, query, parts, idx, tokens, request, sql_filters,
                 computed_filters, fetched, filtered, response, fault>>

\* list_film_rolls, line 74: rolls = query.all()
RaceFetch ==
  /\ phase = "counted"
  /\ fetched' = QueryAll(rolls, sql_filters)
  /\ calls' = Append(calls, "all")
  /\ phase' = "fetched"
  /\ UNCHANGED <<storeVars, query, parts, idx, tokens, request, sql_filters,
                 computed_filters, filtered, response, fault, local_total>>

\* list_film_rolls, lines 77-102: the computed filters and the response
RaceRespond ==
  /\ phase = "fetched"
  /\ \E out \in {SearchFound(tokens, [sql |-> sql_filters, computed |-> computed_filters],
                             fetched, local_total, rolls, batches)} :
       /\ filtered' = out.filtered
       /\ local_total' = out.total
       /\ response' = Some([status_code |-> 200, rolls |-> out.rolls, total |-> out.total])
  /\ phase' = "start"
  /\ UNCHANGED <<storeVars, query, parts, idx, tokens, request, sql_filters,
                 computed_filters, fetched, fault, calls>>

\* the commit of another request's create_film_roll
RaceCreate ==
  /\ minted.film_rolls < MaxRolls
  /\ \E roll_data \in StoreRolls :
       \E out \in {create_film_roll(WithChemistry(roll_data, None), rolls, batches,
                                    minted.film_rolls)} :
         /\ rolls' = out.rolls
         /\ minted' = [minted EXCEPT !.film_rolls = @ + 1]
  /\ UNCHANGED <<parseVars, searchVars, batches, chart>>

\* the commit of another request's delete_film_roll
RaceDelete ==
  /\ \E roll_id \in MintedRollIds :
       \E out \in {delete_film_roll(roll_id, rolls, batches)} :
         /\ out.response.status_code = 204
         /\ rolls' = out.rolls
  /\ UNCHANGED <<parseVars, searchVars, batches, chart, minted>>

\* list_film_rolls returns (line 102)
RaceReturn ==
  /\ response # None
  /\ ReturnResponse

RaceNext ==
  \/ RaceSearch \/ RaceCount \/ RaceFetch \/ RaceRespond
  \/ RaceCreate \/ RaceDelete
  \/ RaceReturn

SpecRace == Init /\ [][RaceNext]_vars

(***************************************************************************)
(* Properties of a search among concurrent writes, over SpecRace.          *)
(***************************************************************************)
\* C30: when other requests create or delete rolls concurrently with a
\* search request that has no computed filters, the search response's total
\* still equals the number of rolls it returns, i.e. the count and the fetch
\* of the request observe the same store state.
C30_TotalOfReturned ==
  (/\ response # None
   /\ response[1].status_code = 200
   /\ computed_filters = <<>>)
    => response[1].total = Len(response[1].rolls)

====
